---- MODULE Spec2Model ----
(***************************************************************************)
(* Model of modification_workflow.py (Phase 7 "fix" lifecycle).            *)
(*                                                                         *)
(* Text is a sequence of Unicode code points, so that lower-casing,        *)
(* substring search, slicing and formatting are computed as the code       *)
(* computes them.  Optional values (Python None / value) are sequences of  *)
(* length 0 or 1.                                                          *)
(***************************************************************************)
EXTENDS Integers, Sequences, FiniteSets, TLC

VARIABLES
    state,      \* state_manager.state: the persisted ledger of the project
    gh,         \* the external tracker (labels, next number, change requests, merges)
    last,       \* the last invocation: its operation, inputs, outcomes and return value
    trace,      \* the ledger writes and external calls of the last invocation, in order
    issued,     \* history: iteration -> issue number its request obtained (None if none)
    mode,       \* which inputs the environment varies: "core", "dry_run", "labels", "race",
                \* or the helper under analysis: "classify", "branch", "slug"
    cf_feedback, \* classifier specification: the feedback under analysis
    cf_result,   \* classifier specification: what analyze_feedback returned for it
    fn_args,     \* helper specifications: the arguments of the helper under analysis
    fn_result,   \* helper specifications: what the helper returned for them
    procs        \* concurrent invocations: each one's position, the ledger it loaded and
                 \* its own copy, and the order of all the saves

vars == <<state, gh, last, trace, issued, mode, cf_feedback, cf_result, fn_args, fn_result,
          procs>>

(***************************************************************************)
(* Optional values and Python truthiness                                   *)
(***************************************************************************)
None == <<>>
Some(x) == <<x>>
IsNone(o) == o = <<>>
\* `if x:` on an Optional[int]: None and 0 are both falsy
TruthyInt(o) == o # <<>> /\ o[1] # 0
\* `x or y` on an Optional[str] (a sequence of code points): None and "" are falsy
TruthyStr(o) == o # <<>> /\ o[1] # <<>>

(***************************************************************************)
(* Text helpers                                                            *)
(***************************************************************************)
\* str.lower() follows the Unicode character database (version 14.0.0 in Python 3.11).
\* Four numbers per row, lo, hi, step, delta: each of lo, lo + step, .., hi lowers to
\* itself + delta.
LowerTable == <<
    65, 90, 1, 32,   192, 214, 1, 32,   216, 222, 1, 32,   256, 302, 2, 1,
    306, 310, 2, 1,   313, 327, 2, 1,   330, 374, 2, 1,   376, 376, 1, -121,
    377, 381, 2, 1,   385, 385, 1, 210,   386, 388, 2, 1,   390, 390, 1, 206,
    391, 391, 1, 1,   393, 394, 1, 205,   395, 395, 1, 1,   398, 398, 1, 79,
    399, 399, 1, 202,   400, 400, 1, 203,   401, 401, 1, 1,   403, 403, 1, 205,
    404, 404, 1, 207,   406, 406, 1, 211,   407, 407, 1, 209,   408, 408, 1, 1,
    412, 412, 1, 211,   413, 413, 1, 213,   415, 415, 1, 214,   416, 420, 2, 1,
    422, 422, 1, 218,   423, 423, 1, 1,   425, 425, 1, 218,   428, 428, 1, 1,
    430, 430, 1, 218,   431, 431, 1, 1,   433, 434, 1, 217,   435, 437, 2, 1,
    439, 439, 1, 219,   440, 440, 1, 1,   444, 444, 1, 1,   452, 452, 1, 2,
    453, 453, 1, 1,   455, 455, 1, 2,   456, 456, 1, 1,   458, 458, 1, 2,
    459, 475, 2, 1,   478, 494, 2, 1,   497, 497, 1, 2,   498, 500, 2, 1,
    502, 502, 1, -97,   503, 503, 1, -56,   504, 542, 2, 1,   544, 544, 1, -130,
    546, 562, 2, 1,   570, 570, 1, 10795,   571, 571, 1, 1,   573, 573, 1, -163,
    574, 574, 1, 10792,   577, 577, 1, 1,   579, 579, 1, -195,   580, 580, 1, 69,
    581, 581, 1, 71,   582, 590, 2, 1,   880, 882, 2, 1,   886, 886, 1, 1,
    895, 895, 1, 116,   902, 902, 1, 38,   904, 906, 1, 37,   908, 908, 1, 64,
    910, 911, 1, 63,   913, 929, 1, 32,   931, 939, 1, 32,   975, 975, 1, 8,
    984, 1006, 2, 1,   1012, 1012, 1, -60,   1015, 1015, 1, 1,   1017, 1017, 1, -7,
    1018, 1018, 1, 1,   1021, 1023, 1, -130,   1024, 1039, 1, 80,   1040, 1071, 1, 32,
    1120, 1152, 2, 1,   1162, 1214, 2, 1,   1216, 1216, 1, 15,   1217, 1229, 2, 1,
    1232, 1326, 2, 1,   1329, 1366, 1, 48,   4256, 4293, 1, 7264,   4295, 4295, 1, 7264,
    4301, 4301, 1, 7264,   5024, 5103, 1, 38864,   5104, 5109, 1, 8,   7312, 7354, 1, -3008,
    7357, 7359, 1, -3008,   7680, 7828, 2, 1,   7838, 7838, 1, -7615,   7840, 7934, 2, 1,
    7944, 7951, 1, -8,   7960, 7965, 1, -8,   7976, 7983, 1, -8,   7992, 7999, 1, -8,
    8008, 8013, 1, -8,   8025, 8031, 2, -8,   8040, 8047, 1, -8,   8072, 8079, 1, -8,
    8088, 8095, 1, -8,   8104, 8111, 1, -8,   8120, 8121, 1, -8,   8122, 8123, 1, -74,
    8124, 8124, 1, -9,   8136, 8139, 1, -86,   8140, 8140, 1, -9,   8152, 8153, 1, -8,
    8154, 8155, 1, -100,   8168, 8169, 1, -8,   8170, 8171, 1, -112,   8172, 8172, 1, -7,
    8184, 8185, 1, -128,   8186, 8187, 1, -126,   8188, 8188, 1, -9,   8486, 8486, 1, -7517,
    8490, 8490, 1, -8383,   8491, 8491, 1, -8262,   8498, 8498, 1, 28,   8544, 8559, 1, 16,
    8579, 8579, 1, 1,   9398, 9423, 1, 26,   11264, 11311, 1, 48,   11360, 11360, 1, 1,
    11362, 11362, 1, -10743,   11363, 11363, 1, -3814,   11364, 11364, 1, -10727,   11367, 11371, 2, 1,
    11373, 11373, 1, -10780,   11374, 11374, 1, -10749,   11375, 11375, 1, -10783,   11376, 11376, 1, -10782,
    11378, 11378, 1, 1,   11381, 11381, 1, 1,   11390, 11391, 1, -10815,   11392, 11490, 2, 1,
    11499, 11501, 2, 1,   11506, 11506, 1, 1,   42560, 42604, 2, 1,   42624, 42650, 2, 1,
    42786, 42798, 2, 1,   42802, 42862, 2, 1,   42873, 42875, 2, 1,   42877, 42877, 1, -35332,
    42878, 42886, 2, 1,   42891, 42891, 1, 1,   42893, 42893, 1, -42280,   42896, 42898, 2, 1,
    42902, 42920, 2, 1,   42922, 42922, 1, -42308,   42923, 42923, 1, -42319,   42924, 42924, 1, -42315,
    42925, 42925, 1, -42305,   42926, 42926, 1, -42308,   42928, 42928, 1, -42258,   42929, 42929, 1, -42282,
    42930, 42930, 1, -42261,   42931, 42931, 1, 928,   42932, 42946, 2, 1,   42948, 42948, 1, -48,
    42949, 42949, 1, -42307,   42950, 42950, 1, -35384,   42951, 42953, 2, 1,   42960, 42960, 1, 1,
    42966, 42968, 2, 1,   42997, 42997, 1, 1,   65313, 65338, 1, 32,   66560, 66599, 1, 40,
    66736, 66771, 1, 40,   66928, 66964, 2, 39,   66929, 66937, 2, 39,   66941, 66953, 2, 39,
    66957, 66961, 2, 39,   66965, 66965, 1, 39,   68736, 68786, 1, 64,   71840, 71871, 1, 32,
    93760, 93791, 1, 32,   125184, 125217, 1, 34 >>

\* the row of the table that holds c, if any, gives what c lowers to
LowerByTable(c, table) ==
    LET rows == {k \in 1..(Len(table) \div 4) :
                    /\ c >= table[4 * k - 3]
                    /\ c <= table[4 * k - 2]
                    /\ (c - table[4 * k - 3]) % table[4 * k - 1] = 0}
    IN IF rows = {} THEN <<c>>
       ELSE <<c + table[4 * (CHOOSE k \in rows : TRUE)]>>

\* str.lower() on one code point, out of context.  Code points below 128 take the
\* first row; no code point of 11507..42559 (kana, CJK ideographs) has a row; U+0130
\* (304, capital I with dot above) is the one code point that lowers to two code
\* points, 'i' and U+0307 (combining dot above).
LowerChar(c) ==
    IF c < 128 THEN (IF c >= 65 /\ c <= 90 THEN <<c + 32>> ELSE <<c>>)
    ELSE IF c > 11506 /\ c < 42560 THEN <<c>>
    ELSE IF c = 304 THEN <<105, 775>>
    ELSE LowerByTable(c, LowerTable)

\* the code points with the property Cased, as ranges: two numbers each, lo, hi
CasedRanges == <<
    65, 90,   97, 122,   170, 170,   181, 181,   186, 186,   192, 214,
    216, 246,   248, 442,   444, 447,   452, 659,   661, 696,   704, 705,
    736, 740,   837, 837,   880, 883,   886, 887,   890, 893,   895, 895,
    902, 902,   904, 906,   908, 908,   910, 929,   931, 1013,   1015, 1153,
    1162, 1327,   1329, 1366,   1376, 1416,   4256, 4293,   4295, 4295,   4301, 4301,
    4304, 4346,   4349, 4351,   5024, 5109,   5112, 5117,   7296, 7304,   7312, 7354,
    7357, 7359,   7424, 7615,   7680, 7957,   7960, 7965,   7968, 8005,   8008, 8013,
    8016, 8023,   8025, 8025,   8027, 8027,   8029, 8029,   8031, 8061,   8064, 8116,
    8118, 8124,   8126, 8126,   8130, 8132,   8134, 8140,   8144, 8147,   8150, 8155,
    8160, 8172,   8178, 8180,   8182, 8188,   8305, 8305,   8319, 8319,   8336, 8348,
    8450, 8450,   8455, 8455,   8458, 8467,   8469, 8469,   8473, 8477,   8484, 8484,
    8486, 8486,   8488, 8488,   8490, 8493,   8495, 8500,   8505, 8505,   8508, 8511,
    8517, 8521,   8526, 8526,   8544, 8575,   8579, 8580,   9398, 9449,   11264, 11492,
    11499, 11502,   11506, 11507,   11520, 11557,   11559, 11559,   11565, 11565,   42560, 42605,
    42624, 42653,   42786, 42887,   42891, 42894,   42896, 42954,   42960, 42961,   42963, 42963,
    42965, 42969,   42997, 42998,   43000, 43002,   43824, 43866,   43868, 43880,   43888, 43967,
    64256, 64262,   64275, 64279,   65313, 65338,   65345, 65370,   66560, 66639,   66736, 66771,
    66776, 66811,   66928, 66938,   66940, 66954,   66956, 66962,   66964, 66965,   66967, 66977,
    66979, 66993,   66995, 67001,   67003, 67004,   67456, 67456,   67459, 67461,   67463, 67504,
    67506, 67514,   68736, 68786,   68800, 68850,   71840, 71903,   93760, 93823,   119808, 119892,
    119894, 119964,   119966, 119967,   119970, 119970,   119973, 119974,   119977, 119980,   119982, 119993,
    119995, 119995,   119997, 120003,   120005, 120069,   120071, 120074,   120077, 120084,   120086, 120092,
    120094, 120121,   120123, 120126,   120128, 120132,   120134, 120134,   120138, 120144,   120146, 120485,
    120488, 120512,   120514, 120538,   120540, 120570,   120572, 120596,   120598, 120628,   120630, 120654,
    120656, 120686,   120688, 120712,   120714, 120744,   120746, 120770,   120772, 120779,   122624, 122633,
    122635, 122654,   125184, 125251,   127280, 127305,   127312, 127337,   127344, 127369 >>

\* the code points with the property Case_Ignorable, as ranges: two numbers each, lo, hi
CaseIgnorableRanges == <<
    39, 39,   46, 46,   58, 58,   94, 94,   96, 96,   168, 168,
    173, 173,   175, 175,   180, 180,   183, 184,   688, 879,   884, 885,
    890, 890,   900, 901,   903, 903,   1155, 1161,   1369, 1369,   1375, 1375,
    1425, 1469,   1471, 1471,   1473, 1474,   1476, 1477,   1479, 1479,   1524, 1524,
    1536, 1541,   1552, 1562,   1564, 1564,   1600, 1600,   1611, 1631,   1648, 1648,
    1750, 1757,   1759, 1768,   1770, 1773,   1807, 1807,   1809, 1809,   1840, 1866,
    1958, 1968,   2027, 2037,   2042, 2042,   2045, 2045,   2070, 2093,   2137, 2139,
    2184, 2184,   2192, 2193,   2200, 2207,   2249, 2306,   2362, 2362,   2364, 2364,
    2369, 2376,   2381, 2381,   2385, 2391,   2402, 2403,   2417, 2417,   2433, 2433,
    2492, 2492,   2497, 2500,   2509, 2509,   2530, 2531,   2558, 2558,   2561, 2562,
    2620, 2620,   2625, 2626,   2631, 2632,   2635, 2637,   2641, 2641,   2672, 2673,
    2677, 2677,   2689, 2690,   2748, 2748,   2753, 2757,   2759, 2760,   2765, 2765,
    2786, 2787,   2810, 2815,   2817, 2817,   2876, 2876,   2879, 2879,   2881, 2884,
    2893, 2893,   2901, 2902,   2914, 2915,   2946, 2946,   3008, 3008,   3021, 3021,
    3072, 3072,   3076, 3076,   3132, 3132,   3134, 3136,   3142, 3144,   3146, 3149,
    3157, 3158,   3170, 3171,   3201, 3201,   3260, 3260,   3263, 3263,   3270, 3270,
    3276, 3277,   3298, 3299,   3328, 3329,   3387, 3388,   3393, 3396,   3405, 3405,
    3426, 3427,   3457, 3457,   3530, 3530,   3538, 3540,   3542, 3542,   3633, 3633,
    3636, 3642,   3654, 3662,   3761, 3761,   3764, 3772,   3782, 3782,   3784, 3789,
    3864, 3865,   3893, 3893,   3895, 3895,   3897, 3897,   3953, 3966,   3968, 3972,
    3974, 3975,   3981, 3991,   3993, 4028,   4038, 4038,   4141, 4144,   4146, 4151,
    4153, 4154,   4157, 4158,   4184, 4185,   4190, 4192,   4209, 4212,   4226, 4226,
    4229, 4230,   4237, 4237,   4253, 4253,   4348, 4348,   4957, 4959,   5906, 5908,
    5938, 5939,   5970, 5971,   6002, 6003,   6068, 6069,   6071, 6077,   6086, 6086,
    6089, 6099,   6103, 6103,   6109, 6109,   6155, 6159,   6211, 6211,   6277, 6278,
    6313, 6313,   6432, 6434,   6439, 6440,   6450, 6450,   6457, 6459,   6679, 6680,
    6683, 6683,   6742, 6742,   6744, 6750,   6752, 6752,   6754, 6754,   6757, 6764,
    6771, 6780,   6783, 6783,   6823, 6823,   6832, 6862,   6912, 6915,   6964, 6964,
    6966, 6970,   6972, 6972,   6978, 6978,   7019, 7027,   7040, 7041,   7074, 7077,
    7080, 7081,   7083, 7085,   7142, 7142,   7144, 7145,   7149, 7149,   7151, 7153,
    7212, 7219,   7222, 7223,   7288, 7293,   7376, 7378,   7380, 7392,   7394, 7400,
    7405, 7405,   7412, 7412,   7416, 7417,   7468, 7530,   7544, 7544,   7579, 7679,
    8125, 8125,   8127, 8129,   8141, 8143,   8157, 8159,   8173, 8175,   8189, 8190,
    8203, 8207,   8216, 8217,   8228, 8228,   8231, 8231,   8234, 8238,   8288, 8292,
    8294, 8303,   8305, 8305,   8319, 8319,   8336, 8348,   8400, 8432,   11388, 11389,
    11503, 11505,   11631, 11631,   11647, 11647,   11744, 11775,   11823, 11823,   12293, 12293,
    12330, 12333,   12337, 12341,   12347, 12347,   12441, 12446,   12540, 12542,   40981, 40981,
    42232, 42237,   42508, 42508,   42607, 42610,   42612, 42621,   42623, 42623,   42652, 42655,
    42736, 42737,   42752, 42785,   42864, 42864,   42888, 42890,   42994, 42996,   43000, 43001,
    43010, 43010,   43014, 43014,   43019, 43019,   43045, 43046,   43052, 43052,   43204, 43205,
    43232, 43249,   43263, 43263,   43302, 43309,   43335, 43345,   43392, 43394,   43443, 43443,
    43446, 43449,   43452, 43453,   43471, 43471,   43493, 43494,   43561, 43566,   43569, 43570,
    43573, 43574,   43587, 43587,   43596, 43596,   43632, 43632,   43644, 43644,   43696, 43696,
    43698, 43700,   43703, 43704,   43710, 43711,   43713, 43713,   43741, 43741,   43756, 43757,
    43763, 43764,   43766, 43766,   43867, 43871,   43881, 43883,   44005, 44005,   44008, 44008,
    44013, 44013,   64286, 64286,   64434, 64450,   65024, 65039,   65043, 65043,   65056, 65071,
    65106, 65106,   65109, 65109,   65279, 65279,   65287, 65287,   65294, 65294,   65306, 65306,
    65342, 65342,   65344, 65344,   65392, 65392,   65438, 65439,   65507, 65507,   65529, 65531,
    66045, 66045,   66272, 66272,   66422, 66426,   67456, 67461,   67463, 67504,   67506, 67514,
    68097, 68099,   68101, 68102,   68108, 68111,   68152, 68154,   68159, 68159,   68325, 68326,
    68900, 68903,   69291, 69292,   69446, 69456,   69506, 69509,   69633, 69633,   69688, 69702,
    69744, 69744,   69747, 69748,   69759, 69761,   69811, 69814,   69817, 69818,   69821, 69821,
    69826, 69826,   69837, 69837,   69888, 69890,   69927, 69931,   69933, 69940,   70003, 70003,
    70016, 70017,   70070, 70078,   70089, 70092,   70095, 70095,   70191, 70193,   70196, 70196,
    70198, 70199,   70206, 70206,   70367, 70367,   70371, 70378,   70400, 70401,   70459, 70460,
    70464, 70464,   70502, 70508,   70512, 70516,   70712, 70719,   70722, 70724,   70726, 70726,
    70750, 70750,   70835, 70840,   70842, 70842,   70847, 70848,   70850, 70851,   71090, 71093,
    71100, 71101,   71103, 71104,   71132, 71133,   71219, 71226,   71229, 71229,   71231, 71232,
    71339, 71339,   71341, 71341,   71344, 71349,   71351, 71351,   71453, 71455,   71458, 71461,
    71463, 71467,   71727, 71735,   71737, 71738,   71995, 71996,   71998, 71998,   72003, 72003,
    72148, 72151,   72154, 72155,   72160, 72160,   72193, 72202,   72243, 72248,   72251, 72254,
    72263, 72263,   72273, 72278,   72281, 72283,   72330, 72342,   72344, 72345,   72752, 72758,
    72760, 72765,   72767, 72767,   72850, 72871,   72874, 72880,   72882, 72883,   72885, 72886,
    73009, 73014,   73018, 73018,   73020, 73021,   73023, 73029,   73031, 73031,   73104, 73105,
    73109, 73109,   73111, 73111,   73459, 73460,   78896, 78904,   92912, 92916,   92976, 92982,
    92992, 92995,   94031, 94031,   94095, 94111,   94176, 94177,   94179, 94180,   110576, 110579,
    110581, 110587,   110589, 110590,   113821, 113822,   113824, 113827,   118528, 118573,   118576, 118598,
    119143, 119145,   119155, 119170,   119173, 119179,   119210, 119213,   119362, 119364,   121344, 121398,
    121403, 121452,   121461, 121461,   121476, 121476,   121499, 121503,   121505, 121519,   122880, 122886,
    122888, 122904,   122907, 122913,   122915, 122916,   122918, 122922,   123184, 123197,   123566, 123566,
    123628, 123631,   125136, 125142,   125252, 125259,   127995, 127999,   917505, 917505,   917536, 917631,
    917760, 917999 >>

InRanges(c, ranges) ==
    \E k \in 1..(Len(ranges) \div 2) : c >= ranges[2 * k - 1] /\ c <= ranges[2 * k]

\* capital sigma at position i is in the Final_Sigma context when the nearest
\* character before it that is not case-ignorable is cased, and the nearest one
\* after it, if any, is not
FinalSigmaIn(s, i, cased, ignorable) ==
    LET before == {j \in 1..(i - 1) : ~InRanges(s[j], ignorable)}
        after == {j \in (i + 1)..Len(s) : ~InRanges(s[j], ignorable)}
    IN /\ before # {}
       /\ InRanges(s[CHOOSE j \in before : \A k \in before : k <= j], cased)
       /\ \/ after = {}
          \/ ~InRanges(s[CHOOSE j \in after : \A k \in after : j <= k], cased)

FinalSigma(s, i) == FinalSigmaIn(s, i, CasedRanges, CaseIgnorableRanges)

\* what the character at position i of s lowers to: capital sigma (931) lowers to
\* final small sigma (962) in the Final_Sigma context and to small sigma (963) elsewhere
LowerAt(s, i) ==
    IF s[i] = 931
    THEN (IF FinalSigma(s, i) THEN <<962>> ELSE <<963>>)
    ELSE LowerChar(s[i])

RECURSIVE LowerFrom(_, _)
LowerFrom(s, i) == IF i > Len(s) THEN <<>> ELSE LowerAt(s, i) \o LowerFrom(s, i + 1)

\* str.lower(): the result can be longer than s
Lower(s) == LowerFrom(s, 1)

\* the `in` operator on strings: k occurs in s as a contiguous substring
Contains(s, k) ==
    \E i \in 0..(Len(s) - Len(k)) : \A j \in 1..Len(k) : s[i + j] = k[j]

\* s[:n]
Prefix(s, n) == IF Len(s) > n THEN SubSeq(s, 1, n) ELSE s

(***************************************************************************)
(* String literals of the source, as code points                           *)
(***************************************************************************)
T_type_ui       == <<116, 121, 112, 101, 58, 117, 105>>                    \* "type:ui"
T_type_fix      == <<116, 121, 112, 101, 58, 102, 105, 120>>               \* "type:fix"
T_type_docs     == <<116, 121, 112, 101, 58, 100, 111, 99, 115>>           \* "type:docs"
T_type_security == <<116, 121, 112, 101, 58, 115, 101, 99, 117, 114, 105, 116, 121>> \* "type:security"
T_type_refactor == <<116, 121, 112, 101, 58, 114, 101, 102, 97, 99, 116, 111, 114>> \* "type:refactor"
T_app_colon     == <<97, 112, 112, 58>>                                    \* "app:"
T_fix_slash     == <<102, 105, 120, 47>>                                   \* "fix/"
T_fix           == <<102, 105, 120>>                                       \* "fix"
T_dots          == <<46, 46, 46>>                                          \* "..."
T_issues        == <<47, 105, 115, 115, 117, 101, 115, 47>>                \* "/issues/"
T_pull          == <<47, 112, 117, 108, 108, 47>>                          \* "/pull/"
\* "https://github.com/sohei-t/ai-agent-portfolio": the tracker's URL of repo_full
T_repo_url      == <<104, 116, 116, 112, 115, 58, 47, 47, 103, 105, 116, 104, 117, 98, 46,
                     99, 111, 109, 47, 115, 111, 104, 101, 105, 45, 116, 47, 97, 105, 45,
                     97, 103, 101, 110, 116, 45, 112, 111, 114, 116, 102, 111, 108, 105, 111>>
Hyphen == 45

(***************************************************************************)
(* MODIFICATION_TYPES, in declaration order (a dict iterates in it)        *)
(***************************************************************************)
MODIFICATION_TYPES == <<
    [name |-> "ui",
     keywords |-> << <<12487, 12470, 12452, 12531>>, <<33394>>,
                     <<12524, 12452, 12450, 12454, 12488>>,
                     <<12473, 12479, 12452, 12523>>, <<67, 83, 83>>,
                     <<35211, 12383, 30446>>, <<85, 73>>,
                     <<12508, 12479, 12531>>, <<12501, 12457, 12531, 12488>> >>,
     phases |-> <<3, 6>>,
     labels |-> <<T_type_ui>>],
    [name |-> "logic",
     keywords |-> << <<12525, 12472, 12483, 12463>>, <<27231, 33021>>,
                     <<21205, 20316>>, <<12496, 12464>>, <<12456, 12521, 12540>>,
                     <<20462, 27491>>, <<36861, 21152>>, <<21066, 38500>> >>,
     phases |-> <<3, 4, 6>>,
     labels |-> <<T_type_fix>>],
    [name |-> "docs",
     keywords |-> << <<12489, 12461, 12517, 12513, 12531, 12488>>,
                     <<82, 69, 65, 68, 77, 69>>, <<35500, 26126>>,
                     <<12467, 12513, 12531, 12488>>, <<12504, 12523, 12503>> >>,
     phases |-> <<5, 6>>,
     labels |-> <<T_type_docs>>],
    [name |-> "security",
     keywords |-> << <<12475, 12461, 12517, 12522, 12486, 12451>>,
                     <<35469, 35388>>, <<12497, 12473, 12527, 12540, 12489>>,
                     <<65, 80, 73>>, <<12461, 12540>>,
                     <<12488, 12540, 12463, 12531>> >>,
     phases |-> <<3, 4, 6>>,
     labels |-> <<T_type_security>>],
    [name |-> "full",
     keywords |-> << <<20840, 20307>>, <<22823, 24133>>,
                     <<12522, 12501, 12449, 12463, 12479>>,
                     <<20316, 12426, 30452, 12375>> >>,
     phases |-> <<3, 4, 5, 6>>,
     labels |-> <<T_type_refactor>>]
>>

TypeIndex == 1..Len(MODIFICATION_TYPES)

(***************************************************************************)
(* analyze_feedback                                                        *)
(***************************************************************************)
\* one category matches when some keyword, lower-cased, occurs in the lower-cased feedback
TypeMatches(i, feedback) ==
    LET feedback_lower == Lower(feedback)
    IN \E k \in 1..Len(MODIFICATION_TYPES[i].keywords) :
           Contains(feedback_lower, Lower(MODIFICATION_TYPES[i].keywords[k]))

\* matched_types, as the set of table positions (the list is in table order)
matched_types(feedback) == {i \in TypeIndex : TypeMatches(i, feedback)}

\* a maximum that keeps the LAST maximal element
MaxByPhasesLast(m) ==
    CHOOSE i \in m :
        /\ \A j \in m : Len(MODIFICATION_TYPES[j].phases) <= Len(MODIFICATION_TYPES[i].phases)
        /\ \A j \in m : Len(MODIFICATION_TYPES[j].phases) = Len(MODIFICATION_TYPES[i].phases)
                            => j <= i

\* max(matched_types, key=len(phases)): Python's max keeps the FIRST maximal element
MaxByPhases(m) ==
    CHOOSE i \in m :
        /\ \A j \in m : Len(MODIFICATION_TYPES[j].phases) <= Len(MODIFICATION_TYPES[i].phases)
        /\ \A j \in m : Len(MODIFICATION_TYPES[j].phases) = Len(MODIFICATION_TYPES[i].phases)
                            => i <= j

\* a classifier whose default is the logic category
analyze_feedback_default_logic(feedback) ==
    LET m == matched_types(feedback) IN
    IF m = {}
    THEN [type |-> "logic", phases |-> <<3, 4, 6>>, labels |-> <<T_type_fix>>]
    ELSE LET best == MaxByPhases(m) IN
         [type |-> MODIFICATION_TYPES[best].name,
          phases |-> MODIFICATION_TYPES[best].phases,
          labels |-> MODIFICATION_TYPES[best].labels]

analyze_feedback(feedback) ==
    LET m == matched_types(feedback) IN
    IF m = {}
    THEN [type |-> "ui", phases |-> <<3, 6>>, labels |-> <<T_type_ui>>]
    ELSE LET best == MaxByPhases(m) IN
         [type |-> MODIFICATION_TYPES[best].name,
          phases |-> MODIFICATION_TYPES[best].phases,
          labels |-> MODIFICATION_TYPES[best].labels]

(***************************************************************************)
(* GitHubIssuePRManager: pure helpers                                      *)
(***************************************************************************)
\* the character class [a-z0-9\u3040-\u309f\u30a0-\u30ff\u4e00-\u9fff]
SlugAllowed(c) ==
    \/ (c >= 97 /\ c <= 122)
    \/ (c >= 48 /\ c <= 57)
    \/ (c >= 12352 /\ c <= 12447)
    \/ (c >= 12448 /\ c <= 12543)
    \/ (c >= 19968 /\ c <= 40959)

\* re.sub(r'[^allowed]+', '-', s): every maximal run of other characters becomes one '-'
RECURSIVE SubRuns(_)
SubRuns(s) ==
    IF s = <<>> THEN <<>>
    ELSE IF SlugAllowed(Head(s)) THEN <<Head(s)>> \o SubRuns(Tail(s))
    ELSE IF Len(s) > 1 /\ ~SlugAllowed(s[2]) THEN SubRuns(Tail(s))
    ELSE <<Hyphen>> \o SubRuns(Tail(s))

\* re.sub(r'-+', '-', s)
RECURSIVE CollapseHyphens(_)
CollapseHyphens(s) ==
    IF s = <<>> THEN <<>>
    ELSE IF Head(s) = Hyphen /\ Len(s) > 1 /\ s[2] = Hyphen THEN CollapseHyphens(Tail(s))
    ELSE <<Head(s)>> \o CollapseHyphens(Tail(s))

RECURSIVE LStripHyphen(_)
LStripHyphen(s) ==
    IF s # <<>> /\ Head(s) = Hyphen THEN LStripHyphen(Tail(s)) ELSE s

\* s.rstrip('-')
RECURSIVE RStripHyphen(_)
RStripHyphen(s) ==
    IF s # <<>> /\ s[Len(s)] = Hyphen THEN RStripHyphen(SubSeq(s, 1, Len(s) - 1)) ELSE s

\* s.strip('-')
StripHyphen(s) == RStripHyphen(LStripHyphen(s))

SLUG_MAX_LENGTH == 30
BRANCH_MAX_LENGTH == 60
TITLE_MAX_LENGTH == 50

\* a slug cut at the limit without removing a hyphen left at the end
_slugify_keep_trailing(text) ==
    LET slug1 == StripHyphen(CollapseHyphens(SubRuns(Lower(text))))
        slug2 == IF Len(slug1) > SLUG_MAX_LENGTH
                 THEN SubSeq(slug1, 1, SLUG_MAX_LENGTH)
                 ELSE slug1
    IN IF slug2 = <<>> THEN T_fix ELSE slug2

_slugify(text) ==
    LET slug1 == StripHyphen(CollapseHyphens(SubRuns(Lower(text))))
        slug2 == IF Len(slug1) > SLUG_MAX_LENGTH
                 THEN RStripHyphen(SubSeq(slug1, 1, SLUG_MAX_LENGTH))
                 ELSE slug1
    IN IF slug2 = <<>> THEN T_fix ELSE slug2

\* str(n) for n >= 0
RECURSIVE Str(_)
Str(n) == IF n < 10 THEN <<48 + n>> ELSE Str(n \div 10) \o <<48 + (n % 10)>>

\* the digit zero of every script: each is followed by its digits one to nine.
\* The regular expression's \d and int() accept the decimal digits of every script.
DigitZeros == {
    48, 1632, 1776, 1984, 2406, 2534, 2662, 2790, 2918, 3046, 3174, 3302,
    3430, 3558, 3664, 3792, 3872, 4160, 4240, 6112, 6160, 6470, 6608, 6784,
    6800, 6992, 7088, 7232, 7248, 42528, 43216, 43264, 43472, 43504, 43600, 44016,
    65296, 66720, 68912, 69734, 69872, 69942, 70096, 70384, 70736, 70864, 71248, 71360,
    71472, 71904, 72016, 72784, 73040, 73120, 92768, 92864, 93008, 120782, 120792, 120802,
    120812, 120822, 123200, 123632, 125264, 130032 }

IsDigit(c) ==
    IF c < 128 THEN c >= 48 /\ c <= 57
    ELSE \E z \in DigitZeros : c >= z /\ c <= z + 9

\* the value of a decimal digit
DigitValue(c) ==
    IF c < 128 THEN c - 48
    ELSE c - (CHOOSE z \in DigitZeros : c >= z /\ c <= z + 9)

\* int(digits)
RECURSIVE ParseInt(_)
ParseInt(d) ==
    IF d = <<>> THEN 0
    ELSE ParseInt(SubSeq(d, 1, Len(d) - 1)) * 10 + DigitValue(d[Len(d)])

\* the longest run of digits of s starting at position i
RECURSIVE DigitsFrom(_, _)
DigitsFrom(s, i) ==
    IF i <= Len(s) /\ IsDigit(s[i]) THEN <<s[i]>> \o DigitsFrom(s, i + 1) ELSE <<>>

\* re.search(marker + r'(\d+)', s), then int(match.group(1)); None without a match
SearchNumber(s, marker) ==
    LET hits == {i \in 1..Len(s) :
                    /\ i + Len(marker) <= Len(s)
                    /\ \A j \in 1..Len(marker) : s[i + j - 1] = marker[j]
                    /\ IsDigit(s[i + Len(marker)])}
    IN IF hits = {} THEN None
       ELSE LET first == CHOOSE i \in hits : \A k \in hits : i <= k
            IN Some(ParseInt(DigitsFrom(s, first + Len(marker))))

\* feedback[:50] + ("..." if len(feedback) > 50 else "")
MakeTitle(feedback) ==
    Prefix(feedback, TITLE_MAX_LENGTH) \o (IF Len(feedback) > TITLE_MAX_LENGTH THEN T_dots ELSE <<>>)

create_branch(app_name, issue_number, description) ==
    LET slug == _slugify(description)
        branch_name == T_fix_slash \o app_name \o <<Hyphen>> \o Str(issue_number)
                           \o <<Hyphen>> \o slug
    IN IF Len(branch_name) > BRANCH_MAX_LENGTH
       THEN T_fix_slash \o app_name \o <<Hyphen>> \o Str(issue_number)
       ELSE branch_name

(***************************************************************************)
(* The external tracker behind _run_gh, and the calls made on it           *)
(***************************************************************************)
\* one entry of the invocation's trace: a ledger write or an external call
Ev(ev, n, labels, opts) == [ev |-> ev, n |-> n, labels |-> labels, opts |-> opts]

\* _run_gh (lines 78-82) has no try/except: when the command cannot be started,
\* subprocess.run raises (FileNotFoundError, OSError) and the call never reaches the
\* tracker.  The attempt is kept in the trace with this option.
NOT_STARTED == {"not_started"}

\* `gh label list --search q`: the names of the labels that contain q
LabelListStdout(g, query, list_out) ==
    IF list_out = "ok" THEN {l \in g.labels : Contains(l, query)} ELSE {}

\* `label_name in result.stdout`: label_name has no line break, so it occurs in
\* the listing exactly when it occurs in one listed name
InStdout(label_name, lines) == \E l \in lines : Contains(l, label_name)

\* raised: an exception of _run_gh left the function
ensure_labels_exist(g, tr, app_name, list_out, label_out) ==
    LET label_name == T_app_colon \o app_name
        tr1 == Append(tr, Ev("label_list", 0, <<label_name>>, {}))
    IN IF list_out = "not_started"
       THEN [gh |-> g, raised |-> TRUE,
             trace |-> Append(tr, Ev("label_list", 0, <<label_name>>, NOT_STARTED))]
       ELSE IF ~InStdout(label_name, LabelListStdout(g, label_name, list_out))
       THEN IF label_out = "not_started"
            THEN [gh |-> g, raised |-> TRUE,
                  trace |-> Append(tr1, Ev("label_create", 0, <<label_name>>, NOT_STARTED))]
            ELSE [gh |-> IF label_out = "ok"
                         THEN [g EXCEPT !.labels = @ \cup {label_name}] ELSE g,
                  raised |-> FALSE,
                  trace |-> Append(tr1, Ev("label_create", 0, <<label_name>>, {}))]
       ELSE [gh |-> g, raised |-> FALSE, trace |-> tr1]

\* what `gh issue create` / `gh pr create` answers: exit code and stdout
CreateStdout(g, marker, out) ==
    IF out = "created" THEN T_repo_url \o marker \o Str(g.next) ELSE <<>>
CreateReturncode(out) == IF out = "failed" THEN 1 ELSE 0

\* returncode == 0, then re.search on the URL
ParseCreated(returncode, stdout, marker) ==
    IF returncode = 0 THEN SearchNumber(stdout, marker) ELSE None

\* lines 140-160: `gh issue create` and the number read from its output
gh_issue_create(g, tr, all_labels, issue_out) ==
    LET returncode == CreateReturncode(issue_out)
        stdout == CreateStdout(g, T_issues, issue_out)
        g1 == IF returncode = 0
              THEN [g EXCEPT !.next = @ + 1, !.issues = @ \cup {g.next}]
              ELSE g
    IN IF issue_out = "not_started"
       THEN [gh |-> g,
             trace |-> Append(tr, Ev("issue_create", 0, all_labels, NOT_STARTED)),
             ret |-> None, raised |-> TRUE]
       ELSE [gh |-> g1,
             trace |-> Append(tr, Ev("issue_create", 0, all_labels, {})),
             ret |-> ParseCreated(returncode, stdout, T_issues), raised |-> FALSE]

create_issue(g, tr, app_name, title, labels, list_out, label_out, issue_out) ==
    LET e == ensure_labels_exist(g, tr, app_name, list_out, label_out)
        all_labels == <<T_app_colon \o app_name>> \o labels
    IN IF e.raised
       THEN [gh |-> e.gh, trace |-> e.trace, ret |-> None, raised |-> TRUE]
       ELSE gh_issue_create(e.gh, e.trace, all_labels, issue_out)

create_pull_request(g, tr, issue_number, branch_name, pr_out) ==
    LET returncode == CreateReturncode(pr_out)
        stdout == CreateStdout(g, T_pull, pr_out)
        g1 == IF returncode = 0
              THEN [g EXCEPT !.next = @ + 1, !.prs = @ \cup {g.next}]
              ELSE g
    IN IF pr_out = "not_started"
       THEN [gh |-> g,
             trace |-> Append(tr, Ev("pr_create", issue_number, <<branch_name>>,
                                     NOT_STARTED)),
             ret |-> None, raised |-> TRUE]
       ELSE [gh |-> g1,
             trace |-> Append(tr, Ev("pr_create", issue_number, <<branch_name>>, {})),
             ret |-> ParseCreated(returncode, stdout, T_pull), raised |-> FALSE]

\* merge_calls: the merge requests the tracker received
merge_pull_request(g, tr, pr_number, merge_out) ==
    IF merge_out = "not_started"
    THEN [gh |-> g,
          trace |-> Append(tr, Ev("pr_merge", pr_number, <<>>, NOT_STARTED)),
          ret |-> FALSE, raised |-> TRUE]
    ELSE [gh |-> [g EXCEPT !.merge_calls = Append(@, pr_number)],
          trace |-> Append(tr, Ev("pr_merge", pr_number, <<>>, {})),
          ret |-> merge_out = "ok", raised |-> FALSE]

(***************************************************************************)
(* The ledger: WorkflowStateManager (workflow_state_manager.py)            *)
(***************************************************************************)
NoState ==
    [exists |-> FALSE, project_name |-> <<>>, portfolio_app_name |-> None,
     modifications |-> <<>>, github_tracking |-> None, finished |-> FALSE]

ACTIVE == {"pending", "in_progress"}

ActiveIndexes(st) ==
    {i \in 1..Len(st.modifications) : st.modifications[i].status \in ACTIVE}

IterationsOf(st) == {st.modifications[i].iteration : i \in 1..Len(st.modifications)}

\* iteration: monotonically increasing, unique within a project
NextIteration(st) ==
    IF st.modifications = <<>> THEN 1
    ELSE 1 + (CHOOSE m \in IterationsOf(st) : \A k \in IterationsOf(st) : k <= m)

SM_initialize(project_name) ==
    [exists |-> TRUE, project_name |-> project_name, portfolio_app_name |-> None,
     modifications |-> <<>>, github_tracking |-> None, finished |-> FALSE]

\* getPending: the Pending or InProgress cycle, None without one (or without state)
SM_get_pending_modification(st) ==
    IF ~st.exists \/ ActiveIndexes(st) = {} THEN None
    ELSE LET i == CHOOSE a \in ActiveIndexes(st) : \A b \in ActiveIndexes(st) : b <= a
         IN Some(st.modifications[i])

NewCycle(st, feedback, phases) ==
    [iteration |-> NextIteration(st), feedback |-> feedback,
     phases_to_rerun |-> phases, status |-> "pending"]

\* a ledger that queues: the new cycle is appended behind an active one
SM_request_modification_queue(st, feedback, phases) ==
    [st EXCEPT !.modifications = Append(@, NewCycle(st, feedback, phases))]

\* recordRequest: a Pending or InProgress cycle is replaced by the new request,
\* otherwise the new cycle is appended to the history
SM_request_modification(st, feedback, phases) ==
    IF ActiveIndexes(st) = {}
    THEN [st EXCEPT !.modifications = Append(@, NewCycle(st, feedback, phases))]
    ELSE [st EXCEPT !.modifications =
            [i \in 1..Len(@) |->
                IF i \in ActiveIndexes(st) THEN NewCycle(st, feedback, phases) ELSE @[i]]]

SetActiveStatus(st, status) ==
    [st EXCEPT !.modifications =
        [i \in 1..Len(@) |->
            IF i \in ActiveIndexes(st) THEN [@[i] EXCEPT !.status = status] ELSE @[i]]]

\* start: marks the cycle started
SM_start_modification(st) == SetActiveStatus(st, "in_progress")

\* complete: marks the cycle Completed
SM_complete_modification(st) == SetActiveStatus(st, "completed")

\* completeWorkflow: marks the whole project finished, whatever its cycles
SM_complete_workflow(st) == [st EXCEPT !.finished = TRUE]

(***************************************************************************)
(* ModificationWorkflow                                                    *)
(***************************************************************************)
\* self.app_name, from _get_app_name(): "todo"
SelfAppName == <<116, 111, 100, 111>>

Result(st, g, tr, ok, msg, issue_number, branch_name) ==
    [state |-> st, gh |-> g, trace |-> tr, ok |-> ok, msg |-> msg,
     issue_number |-> issue_number, branch_name |-> branch_name]

\* an exception left the operation: neither the operation nor main() catches it, so
\* the process ends with a traceback and a non-zero exit status, returning nothing;
\* the ledger is as the writes made before the exception left it
Raised(st, g, tr) == Result(st, g, tr, FALSE, "raised", None, None)

\* a request that takes the category and labels from the classifier even when
\* phases are given
ClassifyAlways(feedback, phases) ==
    [type |-> analyze_feedback(feedback).type,
     phases |-> IF IsNone(phases) THEN analyze_feedback(feedback).phases ELSE phases[1],
     labels |-> analyze_feedback(feedback).labels]

\* lines 414-420: the classifier is consulted only when no phases are given
Classify(feedback, phases) ==
    IF IsNone(phases) THEN analyze_feedback(feedback)
    ELSE [type |-> "custom", phases |-> phases[1], labels |-> <<>>]

\* lines 428-471: issue and branch, unless skip_issue
RequestIssue(g, tr, app, feedback, labels, inp) ==
    IF inp.skip_issue
    THEN [gh |-> g, trace |-> tr, issue_number |-> None, branch_name |-> None,
          raised |-> FALSE]
    ELSE LET title == MakeTitle(feedback)
             c == create_issue(g, tr, app, title, labels,
                               inp.list_out, inp.label_out, inp.issue_out)
         IN [gh |-> c.gh, trace |-> c.trace, issue_number |-> c.ret,
             branch_name |-> IF TruthyInt(c.ret)
                             THEN Some(create_branch(app, c.ret[1], title))
                             ELSE None,
             raised |-> c.raised]

\* lines 478-488: the tracking information is stored only for a truthy issue number
RequestTracking(st, tr, issue_number, branch_name) ==
    IF st.exists /\ TruthyInt(issue_number)
    THEN [state |-> [st EXCEPT !.github_tracking =
                        Some([issue_number |-> issue_number,
                              branch_name |-> branch_name,
                              pr_number |-> None])],
          trace |-> Append(tr, Ev("save_state", 0, <<>>, {}))]
    ELSE [state |-> st, trace |-> tr]

\* a request that keeps the cycle already active instead of recording the new one
RecordRequestKeepActive(st, feedback, phases) ==
    IF ActiveIndexes(st) # {} THEN st ELSE SM_request_modification(st, feedback, phases)

\* line 476: the request is recorded in the ledger unconditionally
RecordRequest(st, feedback, phases) == SM_request_modification(st, feedback, phases)

\* lines 473-513: the request is recorded, then the tracking information
RequestRecord(st1, inp, cls, i) ==
    LET st2 == RecordRequest(st1, inp.feedback, cls.phases)
        tr2 == Append(i.trace, Ev("ledger_request", 0, <<>>, {}))
        t == RequestTracking(st2, tr2, i.issue_number, i.branch_name)
    IN IF i.raised
       THEN Raised(st1, i.gh, i.trace)
       ELSE Result(t.state, i.gh, t.trace, TRUE, "requested",
                   i.issue_number, i.branch_name)

\* lines 414-513: with the classification made, the issue and the branch, then
\* the ledger
RequestClassified(st1, tr1, g, app, inp, cls) ==
    RequestRecord(st1, inp, cls,
                  RequestIssue(g, tr1, app, inp.feedback, cls.labels, inp))

\* lines 409-411: a project without a ledger gets one first
request_modification(st, g, inp) ==
    LET app == IF TruthyStr(inp.app_name) THEN inp.app_name[1] ELSE SelfAppName
    IN IF app = <<>>
       THEN Result(st, g, <<>>, FALSE, "App name not found", None, None)
       ELSE RequestClassified(
                IF ~st.exists THEN SM_initialize(app) ELSE st,
                IF ~st.exists THEN <<Ev("ledger_initialize", 0, <<>>, {})>> ELSE <<>>,
                g, app, inp, Classify(inp.feedback, inp.phases))

\* state.metadata.get('github_tracking', {}).get(key)
TrackingIssue(st) ==
    IF IsNone(st.github_tracking) THEN None ELSE st.github_tracking[1].issue_number
TrackingBranch(st) ==
    IF IsNone(st.github_tracking) THEN None ELSE st.github_tracking[1].branch_name

\* an execute that completes the cycle instead of starting it
execute_modification_completes(st, g, inp) ==
    IF IsNone(SM_get_pending_modification(st))
    THEN Result(st, g, <<>>, FALSE, "No pending modification", None, None)
    ELSE Result(SM_complete_modification(st), g,
                <<Ev("ledger_complete", 0, <<>>, {})>>,
                TRUE, "Modification guidance displayed",
                TrackingIssue(st), TrackingBranch(st))

\* an execute that does not look for a pending cycle
execute_modification_unchecked(st, g, inp) ==
    Result(SM_start_modification(st), g,
           <<Ev("ledger_start", 0, <<>>, {})>>,
           TRUE, "Modification guidance displayed",
           TrackingIssue(st), TrackingBranch(st))

execute_modification(st, g, inp) ==
    IF IsNone(SM_get_pending_modification(st))
    THEN Result(st, g, <<>>, FALSE, "No pending modification", None, None)
    ELSE Result(SM_start_modification(st), g,
                <<Ev("ledger_start", 0, <<>>, {})>>,
                TRUE, "Modification guidance displayed",
                TrackingIssue(st), TrackingBranch(st))

\* lines 646-658: the publish is invoked unless dry_run, and its failure is fatal
PublishInvoked(dry_run) == ~dry_run
\* the publish result ignored
PublishFailedIgnored(dry_run, publish_ok) == FALSE
PublishFailed(dry_run, publish_ok) == PublishInvoked(dry_run) /\ ~publish_ok

\* line 665: a change request is created for a truthy issue number, unless dry_run
WantsPullRequest(issue_number, dry_run) == TruthyInt(issue_number) /\ ~dry_run

\* line 695: the merge is attempted for a truthy change-request number, unless dry_run
WantsMerge(pr_number, dry_run) == TruthyInt(pr_number) /\ ~dry_run

\* lines 663-690: create the change request and store its number
FixPullRequest(st, g, tr, app_name, inp) ==
    LET issue_number == TrackingIssue(st)
        branch_name == TrackingBranch(st)
    IN IF WantsPullRequest(issue_number, inp.dry_run)
       THEN LET head == IF TruthyStr(branch_name) THEN branch_name[1]
                        ELSE T_fix_slash \o app_name \o <<Hyphen>> \o Str(issue_number[1])
                c == create_pull_request(g, tr, issue_number[1], head, inp.pr_out)
            IN IF TruthyInt(c.ret)
               THEN [state |-> [st EXCEPT !.github_tracking =
                                   Some([@[1] EXCEPT !.pr_number = c.ret])],
                     gh |-> c.gh,
                     trace |-> Append(c.trace, Ev("save_state", 0, <<>>, {})),
                     pr_number |-> c.ret, raised |-> FALSE]
               ELSE [state |-> st, gh |-> c.gh, trace |-> c.trace, pr_number |-> None,
                     raised |-> c.raised]
       ELSE [state |-> st, gh |-> g, trace |-> tr, pr_number |-> None, raised |-> FALSE]

\* a merge that is requested again when it failed
FixMergeRetry(g, tr, pr_number, inp) ==
    IF WantsMerge(pr_number, inp.dry_run)
    THEN LET m == merge_pull_request(g, tr, pr_number[1], inp.merge_out)
             m2 == merge_pull_request(m.gh, m.trace, pr_number[1], inp.merge_out)
         IN IF inp.merge_out = "fail"
            THEN [gh |-> m2.gh, trace |-> m2.trace, raised |-> m2.raised]
            ELSE [gh |-> m.gh, trace |-> m.trace, raised |-> m.raised]
    ELSE [gh |-> g, trace |-> tr, raised |-> FALSE]

\* lines 692-701: merge; its failure is only a warning
FixMerge(g, tr, pr_number, inp) ==
    IF WantsMerge(pr_number, inp.dry_run)
    THEN LET m == merge_pull_request(g, tr, pr_number[1], inp.merge_out)
         IN [gh |-> m.gh, trace |-> m.trace, raised |-> m.raised]
    ELSE [gh |-> g, trace |-> tr, raised |-> FALSE]

\* line 623: self.app_name or state.portfolio.get('app_name') or state.project_name
FixAppName(st) ==
    IF SelfAppName # <<>> THEN SelfAppName
    ELSE IF TruthyStr(st.portfolio_app_name) THEN st.portfolio_app_name[1]
    ELSE st.project_name

\* a complete_fix that marks the cycle Completed right after the publish
complete_fix_completes_early(st, g, inp) ==
    IF ~st.exists
    THEN Result(st, g, <<>>, FALSE, "No workflow state", None, None)
    ELSE IF IsNone(SM_get_pending_modification(st))
    THEN Result(st, g, <<>>, FALSE, "No pending modification", None, None)
    ELSE IF ~inp.public_exists
    THEN Result(st, g, <<>>, FALSE, "project/public/ not found", None, None)
    ELSE
    LET tr1 == IF PublishInvoked(inp.dry_run)
               THEN <<Ev("publish", 0, <<>>, {})>> ELSE <<>>
    IN IF PublishFailed(inp.dry_run, inp.publish_ok)
       THEN Result(st, g, tr1, FALSE, "GitHub publish failed", None, None)
       ELSE
       LET app_name == FixAppName(st)
           p == FixPullRequest(SM_complete_modification(st), g,
                               Append(tr1, Ev("ledger_complete", 0, <<>>, {})),
                               app_name, inp)
           m == FixMerge(p.gh, p.trace, p.pr_number, inp)
       IN IF p.raised THEN Raised(p.state, p.gh, p.trace)
          ELSE IF m.raised THEN Raised(p.state, m.gh, m.trace)
          ELSE Result(p.state, m.gh, m.trace,
                      TRUE, "Modification completed successfully",
                      TrackingIssue(st), TrackingBranch(st))

complete_fix(st, g, inp) ==
    IF ~st.exists
    THEN Result(st, g, <<>>, FALSE, "No workflow state", None, None)
    ELSE IF IsNone(SM_get_pending_modification(st))
    THEN Result(st, g, <<>>, FALSE, "No pending modification", None, None)
    ELSE IF ~inp.public_exists
    THEN Result(st, g, <<>>, FALSE, "project/public/ not found", None, None)
    ELSE
    LET tr1 == IF PublishInvoked(inp.dry_run)
               THEN <<Ev("publish", 0, <<>>, {})>> ELSE <<>>
    IN IF PublishFailed(inp.dry_run, inp.publish_ok)
       THEN Result(st, g, tr1, FALSE, "GitHub publish failed", None, None)
       ELSE
       LET app_name == FixAppName(st)
           p == FixPullRequest(st, g, tr1, app_name, inp)
           m == FixMerge(p.gh, p.trace, p.pr_number, inp)
       IN IF p.raised THEN Raised(p.state, p.gh, p.trace)
          ELSE IF m.raised THEN Raised(p.state, m.gh, m.trace)
          ELSE Result(SM_complete_modification(p.state), m.gh,
                      Append(m.trace, Ev("ledger_complete", 0, <<>>, {})),
                      TRUE, "Modification completed successfully",
                      TrackingIssue(st), TrackingBranch(st))

\* lines 746-754: the app name to republish
RepublishAppName(st, app_name) ==
    IF ~IsNone(app_name) THEN app_name[1]
    ELSE IF TruthyStr(st.portfolio_app_name) THEN st.portfolio_app_name[1]
    ELSE st.project_name

\* a publish asked to run the agent review
PublishOptsWithReview(inp) ==
    (IF inp.dry_run THEN {"dry_run"} ELSE {})
        \cup (IF inp.skip_confirm THEN {"skip_confirm"} ELSE {})

\* lines 759-767: PortfolioPublisher.publish(..., skip_agent_review=True)
PublishOpts(inp) ==
    {"skip_agent_review"}
        \cup (IF inp.dry_run THEN {"dry_run"} ELSE {})
        \cup (IF inp.skip_confirm THEN {"skip_confirm"} ELSE {})

\* a republish that records the completion whatever the publish reported
republish_completes_anyway(st, g, inp) ==
    IF ~st.exists
    THEN Result(st, g, <<>>, FALSE, "No workflow state", None, None)
    ELSE IF RepublishAppName(st, inp.app_name) = <<>>
    THEN Result(st, g, <<>>, FALSE, "App name not found", None, None)
    ELSE
    LET tr1 == <<Ev("portfolio_publish", 0, <<RepublishAppName(st, inp.app_name)>>,
                    PublishOpts(inp))>>
    IN Result(SM_complete_modification(st), g,
              Append(tr1, Ev("ledger_complete", 0, <<>>, {})),
              inp.publish_ok, IF inp.publish_ok THEN "published" ELSE "publish failed",
              None, None)

republish(st, g, inp) ==
    IF ~st.exists
    THEN Result(st, g, <<>>, FALSE, "No workflow state", None, None)
    ELSE IF RepublishAppName(st, inp.app_name) = <<>>
    THEN Result(st, g, <<>>, FALSE, "App name not found", None, None)
    ELSE
    LET tr1 == <<Ev("portfolio_publish", 0, <<RepublishAppName(st, inp.app_name)>>,
                    PublishOpts(inp))>>
    IN IF inp.publish_ok
       THEN Result(SM_complete_modification(st), g,
                   Append(tr1, Ev("ledger_complete", 0, <<>>, {})),
                   TRUE, "published", None, None)
       ELSE Result(st, g, tr1, FALSE, "publish failed", None, None)

complete_workflow(st, g) ==
    IF ~st.exists
    THEN Result(st, g, <<>>, FALSE, "No workflow state", None, None)
    ELSE Result(SM_complete_workflow(st), g,
                <<Ev("ledger_complete_workflow", 0, <<>>, {})>>,
                TRUE, "completed", None, None)

\* show_status: prints the report, changes nothing
show_status(st, g) == Result(st, g, <<>>, TRUE, "status", None, None)

(***************************************************************************)
(* Bounds and inputs                                                       *)
(***************************************************************************)
MaxIteration == 2   \* requests recorded on the project
MaxNumber == 3      \* issues and change requests the tracker creates

\* "ボタンの色" (ui) and "ログイン機能のバグを修正" (logic)
FB_button == <<12508, 12479, 12531, 12398, 33394>>
FB_login == <<12525, 12464, 12452, 12531, 27231, 33021, 12398, 12496, 12464, 12434,
              20462, 27491>>

\* --request FEEDBACK with no --phases, or with --phases 3,4,5,6
RequestChoices ==
    {[feedback |-> FB_button, phases |-> None],
     [feedback |-> FB_login, phases |-> Some(<<3, 4, 5, 6>>)]}

\* --dry-run: given to every invocation ("dry_run"), never given ("labels"), or
\* given or not to the subcommands that pass it on and not given to the others
DryRunChoices(passed_on) ==
    IF mode = "dry_run" THEN {TRUE}
    ELSE IF mode = "core" /\ passed_on THEN BOOLEAN ELSE {FALSE}

\* --app-name todo-app or no --app-name
OtherAppName == <<116, 111, 100, 111, 45, 97, 112, 112>>
AppNameChoices == IF mode = "labels" THEN {None, Some(OtherAppName)} ELSE {None}

\* a label call (listing, creation) exits with 0 (ok), exits with another code
\* (fail), or cannot be started (not_started); outside "labels" the label calls
\* succeed and the calls after them are the ones that vary
LabelOutcomes ==
    IF mode = "labels" THEN {"ok", "fail", "not_started"} ELSE {"ok"}

\* what a creation call on the tracker can answer: created (exit 0, URL printed),
\* unparsable (exit 0, no URL), failed (exit code not 0); or it cannot be started.
\* In "labels" the label calls are the ones that vary.
CreateOutcomes(g) ==
    IF mode = "labels"
    THEN (IF g.next > MaxNumber THEN {"failed"} ELSE {"created", "failed"})
    ELSE IF g.next > MaxNumber THEN {"failed", "not_started"}
    ELSE {"created", "unparsable", "failed", "not_started"}

\* `gh pr merge`: exit code 0, another exit code, or the command cannot be started
MergeOutcomes ==
    IF mode = "labels" THEN {"ok", "fail"} ELSE {"ok", "fail", "not_started"}

(***************************************************************************)
(* Invocations: main() dispatching one subcommand per process              *)
(***************************************************************************)
\* get_pending_modification(): the active cycle, if any
Pending(st) == SM_get_pending_modification(st)

Called(tr, ev) == \E i \in 1..Len(tr) : tr[i].ev = ev

Flag(b) == IF b THEN "ok" ELSE "fail"

NoInputs ==
    [dry_run |-> FALSE, skip_confirm |-> FALSE, feedback |-> <<>>, phases |-> None,
     skip_issue |-> FALSE, app_name |-> None, public_exists |-> TRUE,
     list_out |-> "ok", label_out |-> "ok", issue_out |-> "failed",
     publish_ok |-> TRUE, pr_out |-> "failed", merge_out |-> "ok"]

\* the record of one invocation: the outcome of a call is kept only if the call was made
LastOf(op, inp, r) ==
    [op |-> op, ok |-> r.ok, msg |-> r.msg,
     dry_run |-> inp.dry_run, skip_confirm |-> inp.skip_confirm,
     feedback |-> inp.feedback, phases |-> inp.phases,
     skip_issue |-> inp.skip_issue, app_name |-> inp.app_name,
     public_exists |-> inp.public_exists,
     list_out |-> IF Called(r.trace, "label_list") THEN inp.list_out ELSE "n/a",
     label_out |-> IF Called(r.trace, "label_create") THEN inp.label_out ELSE "n/a",
     issue_out |-> IF Called(r.trace, "issue_create") THEN inp.issue_out ELSE "n/a",
     publish_out |-> IF Called(r.trace, "publish") \/ Called(r.trace, "portfolio_publish")
                     THEN Flag(inp.publish_ok) ELSE "n/a",
     pr_out |-> IF Called(r.trace, "pr_create") THEN inp.pr_out ELSE "n/a",
     merge_out |-> IF Called(r.trace, "pr_merge") THEN inp.merge_out ELSE "n/a",
     issue_number |-> r.issue_number, branch_name |-> r.branch_name]

Commit(op, inp, r) ==
    /\ state' = r.state
    /\ gh' = r.gh
    /\ trace' = r.trace
    /\ last' = LastOf(op, inp, r)
    /\ issued' = IF op = "request" /\ r.ok
                 THEN [issued EXCEPT ![NextIteration(state)] = r.issue_number]
                 ELSE issued
    /\ UNCHANGED <<mode, cf_feedback, cf_result, fn_args, fn_result, procs>>

\* --request FEEDBACK [--phases ..] [--skip-issue] [--app-name ..]; --dry-run is parsed
\* but not passed on.  The outcome of a call is drawn when the call can be reached.
Request ==
    \E req \in RequestChoices, skip_issue \in BOOLEAN,
       app_name \in AppNameChoices, dry_run \in DryRunChoices(FALSE) :
    \E list_out \in (IF skip_issue THEN {"ok"} ELSE LabelOutcomes) :
    \E label_out \in (IF skip_issue \/ list_out = "not_started"
                       THEN {"ok"} ELSE LabelOutcomes) :
    \E issue_out \in (IF skip_issue \/ list_out = "not_started"
                          \/ label_out = "not_started"
                       THEN {"failed"} ELSE CreateOutcomes(gh)) :
        LET inp == [NoInputs EXCEPT !.feedback = req.feedback, !.phases = req.phases,
                        !.skip_issue = skip_issue, !.app_name = app_name,
                        !.list_out = list_out, !.label_out = label_out,
                        !.issue_out = issue_out, !.dry_run = dry_run,
                        !.public_exists = TRUE]
        IN /\ IF state.exists THEN NextIteration(state) <= MaxIteration ELSE TRUE
           /\ Commit("request", inp, request_modification(state, gh, inp))

\* --execute
Execute ==
    \E dry_run \in DryRunChoices(FALSE) :
        LET inp == [NoInputs EXCEPT !.dry_run = dry_run]
        IN Commit("execute", inp, execute_modification(state, gh, inp))

\* --complete-fix.  The outcome of a call is drawn when the call can be reached.
CompleteFix ==
    \E dry_run \in DryRunChoices(TRUE), public_exists \in BOOLEAN :
    \E publish_ok \in (IF IsNone(Pending(state)) \/ ~public_exists \/ dry_run
                        THEN {TRUE} ELSE BOOLEAN) :
    \E pr_out \in (IF IsNone(Pending(state)) \/ ~public_exists \/ dry_run
                       \/ IsNone(TrackingIssue(state))
                    THEN {"failed"} ELSE CreateOutcomes(gh)) :
    \E merge_out \in (IF pr_out = "created" THEN MergeOutcomes ELSE {"ok"}) :
        LET inp == [NoInputs EXCEPT !.dry_run = dry_run,
                        !.public_exists = public_exists, !.publish_ok = publish_ok,
                        !.pr_out = pr_out, !.merge_out = merge_out]
        IN Commit("complete_fix", inp, complete_fix(state, gh, inp))

\* --republish [--app-name ..]
Republish ==
    \E skip_confirm \in BOOLEAN, dry_run \in DryRunChoices(TRUE), app_name \in AppNameChoices,
       publish_ok \in (IF state.exists THEN BOOLEAN ELSE {TRUE}) :
        LET inp == [NoInputs EXCEPT !.skip_confirm = skip_confirm, !.dry_run = dry_run,
                        !.app_name = app_name, !.publish_ok = publish_ok]
        IN Commit("republish", inp, republish(state, gh, inp))

\* --complete
CompleteWorkflow ==
    \E dry_run \in DryRunChoices(FALSE) :
        LET inp == [NoInputs EXCEPT !.dry_run = dry_run]
        IN Commit("complete", inp, complete_workflow(state, gh))

\* --status, or no subcommand
Status == Commit("status", NoInputs, show_status(state, gh))

NoResult == [done |-> FALSE, type |-> "", phases |-> <<>>, labels |-> <<>>]
NoArgs == [app_name |-> <<>>, issue_number |-> 0, text |-> <<>>]
NoReturn == [done |-> FALSE, value |-> <<>>, again |-> <<>>]
NoProcs == [inv |-> <<>>, order |-> <<>>]

Init ==
    /\ state \in {NoState, SM_initialize(SelfAppName)}
    /\ gh = [labels |-> {}, next |-> 1, issues |-> {}, prs |-> {}, merge_calls |-> <<>>]
    /\ last = LastOf("init", NoInputs,
                     Result(NoState, gh, <<>>, TRUE, "init", None, None))
    /\ trace = <<>>
    /\ issued = [i \in 1..MaxIteration |-> None]
    /\ mode = "core"
    /\ cf_feedback = <<>>
    /\ cf_result = NoResult
    /\ fn_args = NoArgs
    /\ fn_result = NoReturn
    /\ procs = NoProcs

Next ==
    \/ Request
    \/ Execute
    \/ CompleteFix
    \/ Republish
    \/ CompleteWorkflow
    \/ Status

Spec == Init /\ [][Next]_vars

\* every invocation is given --dry-run
InitDryRun ==
    /\ state \in {NoState, SM_initialize(SelfAppName)}
    /\ gh = [labels |-> {}, next |-> 1, issues |-> {}, prs |-> {}, merge_calls |-> <<>>]
    /\ last = LastOf("init", NoInputs,
                     Result(NoState, gh, <<>>, TRUE, "init", None, None))
    /\ trace = <<>>
    /\ issued = [i \in 1..MaxIteration |-> None]
    /\ mode = "dry_run"
    /\ cf_feedback = <<>>
    /\ cf_result = NoResult
    /\ fn_args = NoArgs
    /\ fn_result = NoReturn
    /\ procs = NoProcs

SpecDryRun == InitDryRun /\ [][Next]_vars

\* the app name is given or not, and the label calls may fail
InitLabels ==
    /\ state \in {NoState, SM_initialize(SelfAppName)}
    /\ gh = [labels |-> {}, next |-> 1, issues |-> {}, prs |-> {}, merge_calls |-> <<>>]
    /\ last = LastOf("init", NoInputs,
                     Result(NoState, gh, <<>>, TRUE, "init", None, None))
    /\ trace = <<>>
    /\ issued = [i \in 1..MaxIteration |-> None]
    /\ mode = "labels"
    /\ cf_feedback = <<>>
    /\ cf_result = NoResult
    /\ fn_args = NoArgs
    /\ fn_result = NoReturn
    /\ procs = NoProcs

SpecLabels == InitLabels /\ [][Next]_vars

(***************************************************************************)
(* The classifier on its own: every feedback over a small alphabet         *)
(***************************************************************************)
MaxFeedbackLen == 4

\* the characters of the keywords 色, バグ, キー, 全体, 説明 and UI (as U and i), and
\* U+0130, capital I with dot above, which lowers to 'i' followed by U+0307
ClassifyAlphabet ==
    {33394, 12496, 12464, 12461, 12540, 20840, 20307, 35500, 26126, 85, 105, 304}

ClassifyInputs == UNION {[1..n -> ClassifyAlphabet] : n \in 0..MaxFeedbackLen}

InitClassify ==
    /\ state = NoState
    /\ gh = [labels |-> {}, next |-> 1, issues |-> {}, prs |-> {}, merge_calls |-> <<>>]
    /\ last = LastOf("init", NoInputs,
                     Result(NoState, gh, <<>>, TRUE, "init", None, None))
    /\ trace = <<>>
    /\ issued = [i \in 1..MaxIteration |-> None]
    /\ mode = "classify"
    /\ cf_feedback \in ClassifyInputs
    /\ cf_result = NoResult
    /\ fn_args = NoArgs
    /\ fn_result = NoReturn
    /\ procs = NoProcs

Analyze ==
    /\ ~cf_result.done
    /\ cf_result' = [done |-> TRUE,
                     type |-> analyze_feedback(cf_feedback).type,
                     phases |-> analyze_feedback(cf_feedback).phases,
                     labels |-> analyze_feedback(cf_feedback).labels]
    /\ UNCHANGED <<state, gh, last, trace, issued, mode, cf_feedback, fn_args, fn_result, procs>>

NextClassify == Analyze

SpecClassify == InitClassify /\ [][NextClassify]_vars

(***************************************************************************)
(* The helpers on their own: create_branch and _slugify on chosen inputs   *)
(***************************************************************************)
\* the first n characters of p repeated
Cycle(p, n) == [i \in 1..n |-> p[((i - 1) % Len(p)) + 1]]

MaxAppNameLen == 56

\* --app-name: todo, todo-app, and names of 48 to MaxAppNameLen letters
BranchAppNames ==
    {SelfAppName, OtherAppName} \cup {Cycle(<<97>>, n) : n \in 48..MaxAppNameLen}

\* the numbers the tracker gave the issue
BranchIssueNumbers == {1, 42, 12345}

\* "Fix Login!!"
FB_ascii == <<70, 105, 120, 32, 76, 111, 103, 105, 110, 33, 33>>

\* the description is the issue title, MakeTitle(feedback)
BranchDescriptions ==
    {MakeTitle(<<>>), MakeTitle(FB_button), MakeTitle(FB_login), MakeTitle(FB_ascii),
     MakeTitle(Cycle(FB_ascii, 60))}

InitBranch ==
    /\ state = NoState
    /\ gh = [labels |-> {}, next |-> 1, issues |-> {}, prs |-> {}, merge_calls |-> <<>>]
    /\ last = LastOf("init", NoInputs,
                     Result(NoState, gh, <<>>, TRUE, "init", None, None))
    /\ trace = <<>>
    /\ issued = [i \in 1..MaxIteration |-> None]
    /\ mode = "branch"
    /\ cf_feedback = <<>>
    /\ cf_result = NoResult
    /\ fn_args \in [app_name : BranchAppNames, issue_number : BranchIssueNumbers,
                     text : BranchDescriptions]
    /\ fn_result = NoReturn
    /\ procs = NoProcs

DeriveBranch ==
    /\ mode = "branch"
    /\ ~fn_result.done
    /\ fn_result' = [done |-> TRUE,
                     value |-> create_branch(fn_args.app_name, fn_args.issue_number,
                                             fn_args.text),
                     again |-> <<>>]
    /\ UNCHANGED <<state, gh, last, trace, issued, mode, cf_feedback, cf_result, fn_args, procs>>

NextBranch == DeriveBranch

SpecBranch == InitBranch /\ [][NextBranch]_vars

MaxSlugTextLen == 4
MaxSlugHeadLen == 31

\* a, B, '-', ' ', 色 and U+0130, which lowers to 'i' followed by U+0307
SlugAlphabet == {97, 66, 45, 32, 33394, 304}

SlugShortTexts(n) == UNION {[1..k -> SlugAlphabet] : k \in 0..n}

\* what a long text begins with: a.., a-a-.., "a -a -..", ---.., 色B色B..
SlugPatterns == {<<97>>, <<97, 45>>, <<97, 32, 45>>, <<45>>, <<33394, 66>>}

\* short texts, and texts around the 30-character limit ending in every short text
SlugInputs ==
    SlugShortTexts(MaxSlugTextLen)
        \cup {Cycle(p, n) \o t : p \in SlugPatterns, n \in 27..MaxSlugHeadLen,
                                 t \in SlugShortTexts(MaxSlugTextLen - 1)}

InitSlug ==
    /\ state = NoState
    /\ gh = [labels |-> {}, next |-> 1, issues |-> {}, prs |-> {}, merge_calls |-> <<>>]
    /\ last = LastOf("init", NoInputs,
                     Result(NoState, gh, <<>>, TRUE, "init", None, None))
    /\ trace = <<>>
    /\ issued = [i \in 1..MaxIteration |-> None]
    /\ mode = "slug"
    /\ cf_feedback = <<>>
    /\ cf_result = NoResult
    /\ fn_args \in [app_name : {<<>>}, issue_number : {0}, text : SlugInputs]
    /\ fn_result = NoReturn
    /\ procs = NoProcs

Slugify ==
    /\ mode = "slug"
    /\ ~fn_result.done
    /\ fn_result' = [done |-> TRUE,
                     value |-> _slugify(fn_args.text),
                     again |-> _slugify(_slugify(fn_args.text))]
    /\ UNCHANGED <<state, gh, last, trace, issued, mode, cf_feedback, cf_result, fn_args, procs>>

NextSlug == Slugify

SpecSlug == InitSlug /\ [][NextSlug]_vars

(***************************************************************************)
(* Invocations that overlap.  Each process loads the ledger once, when it   *)
(* starts (get_state_manager in __init__), works on its own copy, and every *)
(* tracker call and every ledger write it makes is a step of its own, so    *)
(* the steps of other processes can fall between them.                      *)
(***************************************************************************)
MaxProcs == 2

RaceProcs == 1..MaxProcs

LedgerWrites ==
    {"ledger_initialize", "ledger_request", "ledger_start", "ledger_complete",
     "ledger_complete_workflow", "save_state"}

\* an operation that reads the persisted ledger again before each ledger call
RaceCopyReloaded(mine, disk) == disk

\* lines 303, 408, 607: the ledger calls of an operation work on the state
\* manager obtained in __init__; nothing in the operations reads the persisted
\* ledger again
RaceCopy(mine, disk) == mine

\* the ledger after --request "Fix Login!!" --skip-issue and --execute
StartedLedger ==
    SM_start_modification(
        SM_request_modification(SM_initialize(SelfAppName), FB_ascii,
                                analyze_feedback(FB_ascii).phases))

\* loaded: the ledger read at start; mine: the process's copy; the numbers are
\* the ones the tracker gave this invocation
NoInvocation ==
    [pc |-> "start", op |-> "", feedback |-> <<>>, phases |-> None,
     loaded |-> NoState, mine |-> NoState, ok |-> FALSE,
     issue_number |-> None, branch_name |-> None, pr_number |-> None]

\* the ledger exists in both initial states, so the initialize of line 411 is
\* not reached here
InitRace ==
    /\ state \in {SM_initialize(SelfAppName), StartedLedger}
    /\ gh = [labels |-> {}, next |-> 1, issues |-> {}, prs |-> {}, merge_calls |-> <<>>]
    /\ last = LastOf("init", NoInputs,
                     Result(NoState, gh, <<>>, TRUE, "init", None, None))
    /\ trace = <<>>
    /\ issued = [i \in 1..MaxIteration |-> None]
    /\ mode = "race"
    /\ cf_feedback = <<>>
    /\ cf_result = NoResult
    /\ fn_args = NoArgs
    /\ fn_result = NoReturn
    /\ procs = [inv |-> [p \in RaceProcs |-> NoInvocation], order |-> <<>>]

\* a step of process p that leaves the persisted ledger alone
RaceMove(p, inv, g) ==
    /\ procs' = [procs EXCEPT !.inv[p] = inv]
    /\ gh' = g
    /\ UNCHANGED <<state, last, trace, issued, mode, cf_feedback, cf_result,
                   fn_args, fn_result>>

\* a step of process p that saves its copy of the ledger: save(State) replaces
\* the whole persisted state
RaceWrite(p, inv) ==
    /\ state' = inv.mine
    /\ procs' = [procs EXCEPT !.inv[p] = inv,
                              !.order = Append(@, p)]
    /\ UNCHANGED <<gh, last, trace, issued, mode, cf_feedback, cf_result,
                   fn_args, fn_result>>

\* main(): the process starts with its arguments, ModificationWorkflow.__init__
\* reads the persisted ledger, and the operation makes its checks on that copy
\* (lines 601-604 and 606-610).  Processes are numbered in the order they start.
RaceBegin ==
    \E p \in RaceProcs :
        /\ procs.inv[p].pc = "start"
        /\ IF p = 1 THEN TRUE ELSE procs.inv[p - 1].pc # "start"
        /\ LET inv == [procs.inv[p] EXCEPT !.loaded = state, !.mine = state]
           IN \/ \E req \in RequestChoices, skip_issue \in BOOLEAN :
                    RaceMove(p, [inv EXCEPT !.op = "request",
                                            !.feedback = req.feedback,
                                            !.phases = req.phases,
                                            !.pc = IF skip_issue THEN "ledger_request"
                                                   ELSE "label_list"], gh)
              \/ RaceMove(p, [inv EXCEPT !.op = "execute",
                                         !.pc = IF IsNone(Pending(state)) THEN "done"
                                                ELSE "ledger_start"], gh)
              \/ RaceMove(p, [inv EXCEPT !.op = "complete_fix",
                                         !.pc = IF IsNone(Pending(state)) THEN "done"
                                                ELSE "publish"], gh)

\* lines 101-105: `gh label list`, then the membership test on its output
RaceLabelList ==
    \E p \in RaceProcs :
        /\ procs.inv[p].pc = "label_list"
        /\ LET label_name == T_app_colon \o SelfAppName
               found == InStdout(label_name, LabelListStdout(gh, label_name, "ok"))
           IN RaceMove(p, [procs.inv[p] EXCEPT
                               !.pc = IF found THEN "issue_create" ELSE "label_create"],
                       gh)

\* lines 107-114: `gh label create`
RaceLabelCreate ==
    \E p \in RaceProcs :
        /\ procs.inv[p].pc = "label_create"
        /\ RaceMove(p, [procs.inv[p] EXCEPT !.pc = "issue_create"],
                    [gh EXCEPT !.labels = @ \cup {T_app_colon \o SelfAppName}])

\* lines 140-160 and 462-471: `gh issue create`, then the branch name
RaceIssueCreate ==
    \E p \in RaceProcs, issue_out \in CreateOutcomes(gh) \ {"unparsable", "not_started"} :
        /\ procs.inv[p].pc = "issue_create"
        /\ LET inv == procs.inv[p]
               cls == Classify(inv.feedback, inv.phases)
               c == gh_issue_create(gh, <<>>,
                                    <<T_app_colon \o SelfAppName>> \o cls.labels,
                                    issue_out)
           IN RaceMove(p, [inv EXCEPT
                               !.pc = "ledger_request",
                               !.issue_number = c.ret,
                               !.branch_name =
                                   IF TruthyInt(c.ret)
                                   THEN Some(create_branch(SelfAppName, c.ret[1],
                                                           MakeTitle(inv.feedback)))
                                   ELSE None],
                       c.gh)

\* line 476: the request is recorded and saved
RaceLedgerRequest ==
    \E p \in RaceProcs :
        /\ procs.inv[p].pc = "ledger_request"
        /\ LET inv == procs.inv[p]
               cls == Classify(inv.feedback, inv.phases)
               tracked == TruthyInt(inv.issue_number)
           IN RaceWrite(p, [inv EXCEPT
                                !.mine = RecordRequest(RaceCopy(@, state), inv.feedback,
                                                      cls.phases),
                                !.pc = IF tracked THEN "save_tracking" ELSE "done",
                                !.ok = ~tracked])

\* lines 479-488: the tracking information is stored and saved
RaceSaveTracking ==
    \E p \in RaceProcs :
        /\ procs.inv[p].pc = "save_tracking"
        /\ LET inv == procs.inv[p]
           IN RaceWrite(p, [inv EXCEPT
                                !.mine = RequestTracking(RaceCopy(@, state), <<>>,
                                                         inv.issue_number,
                                                         inv.branch_name).state,
                                !.pc = "done", !.ok = TRUE])

\* execute_modification: the cycle is marked started and saved
RaceLedgerStart ==
    \E p \in RaceProcs :
        /\ procs.inv[p].pc = "ledger_start"
        /\ RaceWrite(p, [procs.inv[p] EXCEPT !.mine = SM_start_modification(RaceCopy(@, state)),
                                             !.pc = "done", !.ok = TRUE])

\* lines 646-658: the publish; its failure ends the operation
RacePublish ==
    \E p \in RaceProcs, publish_ok \in BOOLEAN :
        /\ procs.inv[p].pc = "publish"
        /\ LET inv == procs.inv[p]
           IN RaceMove(p, [inv EXCEPT
                               !.pc = IF PublishFailed(FALSE, publish_ok) THEN "done"
                                      ELSE IF WantsPullRequest(TrackingIssue(inv.mine),
                                                               FALSE)
                                      THEN "pr_create"
                                      ELSE "ledger_complete"],
                       gh)

\* lines 665-688: `gh pr create`; its number is put in the process's copy
RacePrCreate ==
    \E p \in RaceProcs, pr_out \in CreateOutcomes(gh) \ {"unparsable", "not_started"} :
        /\ procs.inv[p].pc = "pr_create"
        /\ LET inv == procs.inv[p]
               c == FixPullRequest(inv.mine, gh, <<>>, FixAppName(inv.mine),
                                   [NoInputs EXCEPT !.pr_out = pr_out])
           IN RaceMove(p, [inv EXCEPT
                               !.mine = c.state,
                               !.pr_number = c.pr_number,
                               !.pc = IF TruthyInt(c.pr_number) THEN "save_pr"
                                      ELSE "ledger_complete"],
                       c.gh)

\* lines 689-690: the copy holding the change-request number is saved
RaceSavePr ==
    \E p \in RaceProcs :
        /\ procs.inv[p].pc = "save_pr"
        /\ RaceWrite(p, [procs.inv[p] EXCEPT !.pc = "pr_merge"])

\* lines 695-701: `gh pr merge`
RaceMerge ==
    \E p \in RaceProcs :
        /\ procs.inv[p].pc = "pr_merge"
        /\ RaceMove(p, [procs.inv[p] EXCEPT !.pc = "ledger_complete"],
                    FixMerge(gh, <<>>, procs.inv[p].pr_number, NoInputs).gh)

\* line 706: the cycle is marked Completed and saved
RaceLedgerComplete ==
    \E p \in RaceProcs :
        /\ procs.inv[p].pc = "ledger_complete"
        /\ RaceWrite(p, [procs.inv[p] EXCEPT !.mine = SM_complete_modification(RaceCopy(@, state)),
                                             !.pc = "done", !.ok = TRUE])

NextRace ==
    \/ RaceBegin
    \/ RaceLabelList
    \/ RaceLabelCreate
    \/ RaceIssueCreate
    \/ RaceLedgerRequest
    \/ RaceSaveTracking
    \/ RaceLedgerStart
    \/ RacePublish
    \/ RacePrCreate
    \/ RaceSavePr
    \/ RaceMerge
    \/ RaceLedgerComplete

SpecRace == InitRace /\ [][NextRace]_vars

(***************************************************************************)
(* Properties                                                              *)
(***************************************************************************)
ExternalCalls ==
    {"label_list", "label_create", "issue_create", "publish", "portfolio_publish",
     "pr_create", "pr_merge"}

NoExternalCall(tr) == \A i \in 1..Len(tr) : tr[i].ev \notin ExternalCalls

\* C1: after any sequence of invocations the ledger holds at most one cycle
\* whose status is Pending or InProgress.
C1_SingleActiveCycle == Cardinality(ActiveIndexes(state)) <= 1

\* a second request arrived while the first cycle was active, and one cycle is active
C1_Witness ==
    /\ last.op = "request"
    /\ Len(state.modifications) = 1
    /\ state.modifications[1].iteration = 2
    /\ Cardinality(ActiveIndexes(state)) = 1

\* C2: when the publish reports failure, complete_fix returns failure, the cycle
\* stays active (not Completed), and no change request is created and no merge
\* attempted, whether or not an issue is recorded.
C2_PublishFailureIsFatal ==
    [][(last'.op = "complete_fix" /\ last'.publish_out = "fail")
        => /\ ~last'.ok
           /\ state' = state
           /\ ~Called(trace', "pr_create")
           /\ ~Called(trace', "pr_merge")
           /\ gh' = gh]_vars

\* a failed publish with an issue recorded for the cycle
C2_Witness ==
    /\ last.op = "complete_fix"
    /\ last.publish_out = "fail"
    /\ TruthyInt(TrackingIssue(state))
    /\ ~IsNone(Pending(state))

\* C3: with a pending cycle, the publish source present and a successful publish,
\* complete_fix returns success and marks the active cycle Completed, whatever
\* the tracking steps did (no issue, change-request creation failed, merge failed).
\* It does not when the change-request or merge command cannot be started: the
\* exception leaves complete_fix after the publish and the cycle stays active.
C3_CompletedDespiteTracking ==
    [][(last'.op = "complete_fix" /\ last'.publish_out = "ok")
        => /\ last'.ok
           /\ ActiveIndexes(state) # {}
           /\ ActiveIndexes(state') = {}
           /\ Len(state'.modifications) = Len(state.modifications)
           /\ \A i \in ActiveIndexes(state) :
                state'.modifications[i] =
                    [state.modifications[i] EXCEPT !.status = "completed"]]_vars

\* C4: the tracking artifact that execute_modification and complete_fix read for
\* the active cycle was produced by that cycle's own request; a cycle whose
\* request obtained no issue has none, even if an earlier cycle had one.
C4_TrackingOwnedByCycle ==
    (last.op = "execute" /\ last.ok)
        => last.issue_number = issued[Pending(state)[1].iteration]

\* C5: without workflow state, without a pending cycle, or (complete_fix) without
\* the publish source directory, execute_modification, complete_fix and republish
\* return failure and issue no external call.
C5_FatalLocalErrorsMakeNoCall ==
    [][(/\ last'.op \in {"execute", "complete_fix", "republish"}
        /\ \/ ~state.exists
           \/ IsNone(Pending(state))
           \/ (last'.op = "complete_fix" /\ ~last'.public_exists))
        => (~last'.ok /\ NoExternalCall(trace'))]_vars

\* the external calls that change something outside: a publish given dry_run is not one
MutatingCall(e) ==
    \/ e.ev \in {"label_create", "issue_create", "publish", "pr_create", "pr_merge"}
    \/ (e.ev = "portfolio_publish" /\ "dry_run" \notin e.opts)

\* C6: with --dry-run no subcommand issues an external mutating call.
C6_DryRunMutatesNothing ==
    last.dry_run => \A i \in 1..Len(trace) : ~MutatingCall(trace[i])

\* C7: of two requests with no completion between them, the pending cycle is the
\* second request's (feedback and phases); the first cycle is no longer active
\* and is not queued behind the second.
C7_SecondRequestSupersedes ==
    [][(/\ last.op = "request" /\ last.ok
        /\ last'.op = "request" /\ last'.ok)
        => /\ ~IsNone(Pending(state)) /\ ~IsNone(Pending(state'))
           /\ Pending(state')[1].feedback = last'.feedback
           /\ Pending(state')[1].phases_to_rerun
                = (IF IsNone(last'.phases)
                   THEN analyze_feedback(last'.feedback).phases
                   ELSE last'.phases[1])
           /\ Pending(state')[1].status = "pending"
           /\ Pending(state')[1].iteration # Pending(state)[1].iteration
           /\ Cardinality(ActiveIndexes(state')) = 1
           /\ \A i \in 1..Len(state'.modifications) :
                state'.modifications[i].iteration = Pending(state)[1].iteration
                    => state'.modifications[i].status \notin ACTIVE]_vars

\* the second of two requests, with another feedback than the first, is the pending one
C7_Witness ==
    /\ last.op = "request"
    /\ Len(state.modifications) = 1
    /\ state.modifications[1].iteration = 2
    /\ state.modifications[1].feedback = FB_login
    /\ state.modifications[1].status = "pending"
    /\ issued[1] # None

\* C8: execute_modification on a Pending cycle makes it InProgress, leaves its
\* feedback, phases to re-run and iteration (and every other cycle) as recorded,
\* and issues no external call.
C8_ExecuteOnlyStarts ==
    [][(/\ last'.op = "execute"
        /\ ~IsNone(Pending(state))
        /\ Pending(state)[1].status = "pending")
        => /\ last'.ok
           /\ Len(state'.modifications) = Len(state.modifications)
           /\ \A i \in 1..Len(state.modifications) :
                state'.modifications[i] =
                    (IF i \in ActiveIndexes(state)
                     THEN [state.modifications[i] EXCEPT !.status = "in_progress"]
                     ELSE state.modifications[i])
           /\ state'.github_tracking = state.github_tracking
           /\ NoExternalCall(trace')
           /\ gh' = gh]_vars

\* an execute that succeeded, with a completed cycle beside the started one
C8_Witness ==
    /\ last.op = "execute"
    /\ last.ok
    /\ Len(state.modifications) = 2
    /\ state.modifications[1].status = "completed"
    /\ state.modifications[2].status = "in_progress"

\* C9: request_modification records a Pending cycle and returns success whatever
\* the issue creation did; when it failed (exit code or unparsable output) no
\* issue number and no branch name are returned and the tracking artifact is not
\* written.  It does not when a label command or the issue command cannot be
\* started: the exception leaves request_modification before line 476 and no
\* cycle is recorded.
C9_RequestSurvivesIssueFailure ==
    [][(last'.op = "request")
        => /\ last'.ok
           /\ ~IsNone(Pending(state'))
           /\ Pending(state')[1].status = "pending"
           /\ Pending(state')[1].feedback = last'.feedback
           /\ (last'.issue_out \in {"failed", "unparsable"}
                => /\ IsNone(last'.issue_number)
                   /\ IsNone(last'.branch_name)
                   /\ ~Called(trace', "save_state")
                   /\ state'.github_tracking = state.github_tracking)]_vars

\* C10: when some category matches, analyze_feedback returns the first-declared
\* category among the matching ones with the longest phase list, with exactly
\* that category's phases and labels.
C10_LongestThenFirstDeclared ==
    (cf_result.done /\ matched_types(cf_feedback) # {})
        => \E i \in matched_types(cf_feedback) :
            /\ \A j \in matched_types(cf_feedback) :
                 /\ Len(MODIFICATION_TYPES[j].phases) <= Len(MODIFICATION_TYPES[i].phases)
                 /\ (j < i => Len(MODIFICATION_TYPES[j].phases)
                                < Len(MODIFICATION_TYPES[i].phases))
            /\ cf_result.type = MODIFICATION_TYPES[i].name
            /\ cf_result.phases = MODIFICATION_TYPES[i].phases
            /\ cf_result.labels = MODIFICATION_TYPES[i].labels

\* logic and security (equal phase lists) both match, and logic is returned
C10_Witness ==
    /\ cf_result.done
    /\ {2, 4} \subseteq matched_types(cf_feedback)
    /\ 5 \notin matched_types(cf_feedback)
    /\ cf_result.type = "logic"

\* C11: for a feedback that matches no keyword of any category, analyze_feedback
\* returns category ui with phases [3, 6] and labels [type:ui].
C11_NoMatchDefaultsToUi ==
    (cf_result.done /\ \A i \in TypeIndex : ~TypeMatches(i, cf_feedback))
        => /\ cf_result.type = "ui"
           /\ cf_result.phases = <<3, 6>>
           /\ cf_result.labels = <<T_type_ui>>

\* a non-empty feedback ("ii" among others) that matches nothing was analysed
C11_Witness ==
    /\ cf_result.done
    /\ Len(cf_feedback) >= 2
    /\ \A i \in TypeIndex : ~TypeMatches(i, cf_feedback)
    /\ cf_result.type = "ui"

\* C12: for every app name, issue number and description, the branch name that
\* create_branch returns begins with fix/ and is at most 60 characters long.
C12_BranchBoundedAndPrefixed ==
    fn_result.done
        => /\ Len(fn_result.value) >= Len(T_fix_slash)
           /\ SubSeq(fn_result.value, 1, Len(T_fix_slash)) = T_fix_slash
           /\ Len(fn_result.value) <= 60

\* C13: _slugify is idempotent, _slugify(_slugify(t)) = _slugify(t), also for
\* texts cut at 30 characters and texts whose slug is empty and becomes fix.
C13_SlugifyIdempotent == fn_result.done => fn_result.again = fn_result.value

\* a text of more than 30 slug characters whose cut left a hyphen to remove
C13_Witness ==
    /\ fn_result.done
    /\ Len(StripHyphen(CollapseHyphens(SubRuns(Lower(fn_args.text))))) > SLUG_MAX_LENGTH
    /\ StripHyphen(CollapseHyphens(SubRuns(Lower(fn_args.text))))[SLUG_MAX_LENGTH] = Hyphen
    /\ Len(fn_result.value) = SLUG_MAX_LENGTH - 1
    /\ fn_result.again = fn_result.value

\* the positions of an event in a trace
At(tr, ev) == {i \in 1..Len(tr) : tr[i].ev = ev}

\* C14: within one complete_fix invocation the publish is the first external
\* step; a change request is created only after a successful publish and only
\* for the issue held by the tracking artifact; a merge is attempted only on a
\* change request created in this invocation; the cycle is marked Completed
\* only after all of these steps.
C14_CompleteFixOrder ==
    last.op = "complete_fix"
        => /\ At(trace, "publish") \subseteq {1}
           /\ (~last.dry_run /\ trace # <<>>) => trace[1].ev = "publish"
           /\ \A i \in At(trace, "pr_create") :
                /\ \E j \in At(trace, "publish") : j < i
                /\ last.publish_out = "ok"
                /\ TruthyInt(TrackingIssue(state))
                /\ trace[i].n = TrackingIssue(state)[1]
           /\ \A i \in At(trace, "pr_merge") :
                /\ \E j \in At(trace, "pr_create") : j < i
                /\ last.pr_out = "created"
                /\ trace[i].n = gh.next - 1
                /\ trace[i].n \in gh.prs
           /\ At(trace, "ledger_complete") \subseteq {Len(trace)}
           /\ last.ok <=> At(trace, "ledger_complete") # {}
           /\ last.ok => ActiveIndexes(state) = {}

\* publish, change request, its number stored, merge, then Completed
C14_Witness ==
    /\ last.op = "complete_fix"
    /\ [i \in 1..Len(trace) |-> trace[i].ev]
         = <<"publish", "pr_create", "save_state", "pr_merge", "ledger_complete">>
    /\ ActiveIndexes(state) = {}

\* C15: in request_modification the cycle is persisted to the ledger as Pending
\* before the tracking issue is created in the external system.
C15_PersistedBeforeIssue ==
    last.op = "request"
        => \A i \in At(trace, "issue_create") :
            \E j \in At(trace, "ledger_request") : j < i

\* C16: complete_fix marks a cycle Completed only in an invocation in which the
\* publish was invoked and reported success, whatever the options.
C16_CompletedOnlyWithPublish ==
    (last.op = "complete_fix" /\ At(trace, "ledger_complete") # {})
        => (At(trace, "publish") # {} /\ last.publish_out = "ok")

\* C17: a cycle reaches Completed only after it has been InProgress: no
\* invocation (complete_fix, republish) takes a cycle that is still Pending
\* to Completed.
C17_CompletedOnlyAfterInProgress ==
    [][\A i \in 1..Len(state.modifications) :
        (/\ state.modifications[i].status = "pending"
         /\ i <= Len(state'.modifications)
         /\ state'.modifications[i].iteration = state.modifications[i].iteration)
            => state'.modifications[i].status # "completed"]_vars

\* the project has cycles and all of them are Completed
AllCompleted(st) ==
    /\ st.exists
    /\ st.modifications # <<>>
    /\ ActiveIndexes(st) = {}

\* C18: Completed is terminal: after a successful complete_fix all cycles are
\* Completed; as long as no new request is made they stay as they are; and every
\* execute_modification or complete_fix made then returns failure with
\* "No pending modification", makes no external call and changes nothing.
C18_CompletedIsTerminal ==
    /\ []((last.op = "complete_fix" /\ last.ok) => AllCompleted(state))
    /\ [][(AllCompleted(state) /\ last'.op # "request")
            => /\ AllCompleted(state')
               /\ state'.modifications = state.modifications]_vars
    /\ [][(AllCompleted(state) /\ last'.op \in {"execute", "complete_fix"})
            => /\ ~last'.ok
               /\ last'.msg = "No pending modification"
               /\ NoExternalCall(trace')
               /\ gh' = gh
               /\ state' = state]_vars

\* the only cycle was completed by a complete_fix that merged, and a later
\* complete_fix was refused
C18_Witness ==
    /\ last.op = "complete_fix"
    /\ ~last.ok
    /\ last.msg = "No pending modification"
    /\ Len(state.modifications) = 1
    /\ state.modifications[1].status = "completed"
    /\ gh.merge_calls # <<>>

\* the invocation returned (False, ..): it failed, and not by an exception
ReturnedFailure(l) == ~l.ok /\ l.msg # "raised"

\* C19: every execute_modification, complete_fix, republish or complete_workflow
\* invocation that returns failure leaves the persisted ledger (all cycles,
\* their statuses and the tracking artifact) exactly as it was before.
C19_FailureLeavesLedger ==
    [][(/\ last'.op \in {"execute", "complete_fix", "republish", "complete"}
        /\ ReturnedFailure(last'))
        => /\ state' = state
           /\ \A i \in 1..Len(trace') :
                trace'[i].ev \notin LedgerWrites]_vars

\* a republish whose publish failed, with a started cycle and an issue recorded
C19_Witness ==
    /\ last.op = "republish"
    /\ ~last.ok
    /\ last.publish_out = "fail"
    /\ ~IsNone(Pending(state))
    /\ Pending(state)[1].status = "in_progress"
    /\ TruthyInt(TrackingIssue(state))

\* C20: republish invokes the publish with agent review skipped; it marks the
\* active cycle Completed and returns success exactly when that publish reports
\* success; when the publish reports failure it returns failure and changes no
\* cycle status.
C20_RepublishCompletesIffPublished ==
    [][(last'.op = "republish")
        => /\ \A i \in At(trace', "portfolio_publish") :
                /\ i = 1
                /\ "skip_agent_review" \in trace'[i].opts
                /\ ("dry_run" \in trace'[i].opts) = last'.dry_run
                /\ ("skip_confirm" \in trace'[i].opts) = last'.skip_confirm
           /\ (last'.publish_out # "n/a") = (At(trace', "portfolio_publish") # {})
           /\ (last'.publish_out = "ok") = last'.ok
           /\ (last'.publish_out = "ok") = (At(trace', "ledger_complete") # {})
           /\ last'.publish_out = "ok"
                => /\ ActiveIndexes(state') = {}
                   /\ Len(state'.modifications) = Len(state.modifications)
                   /\ \A i \in 1..Len(state.modifications) :
                        state'.modifications[i] =
                            (IF i \in ActiveIndexes(state)
                             THEN [state.modifications[i] EXCEPT !.status = "completed"]
                             ELSE state.modifications[i])
           /\ last'.publish_out # "ok" => state' = state]_vars

\* a republish, confirmation skipped, whose publish succeeded and that left the
\* second cycle Completed beside the first
C20_Witness ==
    /\ last.op = "republish"
    /\ last.ok
    /\ last.skip_confirm
    /\ last.publish_out = "ok"
    /\ At(trace, "ledger_complete") # {}
    /\ "skip_agent_review" \in trace[1].opts
    /\ Len(state.modifications) = 2
    /\ ActiveIndexes(state) = {}

\* C21: cycles are never deleted: every cycle a request recorded is still in the
\* modification history after any later operation, and the number of recorded
\* cycles never decreases.
C21_CyclesNeverDeleted ==
    [][/\ IterationsOf(state) \subseteq IterationsOf(state')
       /\ Len(state'.modifications) >= Len(state.modifications)]_vars

\* C22: a merge is never retried: each change request is asked to merge at
\* most once over all invocations and at most one merge is requested per
\* complete_fix; a failed merge still ends with the cycle Completed and success
\* returned.
C22_MergeNeverRetried ==
    /\ \A i, j \in 1..Len(gh.merge_calls) :
            gh.merge_calls[i] = gh.merge_calls[j] => i = j
    /\ \A i \in 1..Len(gh.merge_calls) : gh.merge_calls[i] \in gh.prs
    /\ last.op = "complete_fix" => Cardinality(At(trace, "pr_merge")) <= 1
    /\ (last.op = "complete_fix" /\ last.merge_out = "fail")
            => /\ last.ok
               /\ At(trace, "ledger_complete") # {}
               /\ ActiveIndexes(state) = {}

\* the second change request's merge failed after the first one's was requested
C22_Witness ==
    /\ last.op = "complete_fix"
    /\ last.merge_out = "fail"
    /\ last.ok
    /\ Len(gh.merge_calls) = 2
    /\ Len(state.modifications) = 2

\* the ledger an invocation that has finished leaves when it runs alone on the
\* ledger it loaded, given the numbers the tracker gave it.  An invocation that
\* returned failure (lines 530-532: no pending cycle; lines 613-615: the same in
\* complete_fix; lines 656-658: the publish failed) returned before its first
\* ledger call and leaves the ledger as it loaded it.
RaceAlone(inv) ==
    IF ~inv.ok
    THEN inv.loaded
    ELSE IF inv.op = "request"
    THEN RequestTracking(
             RecordRequest(inv.loaded, inv.feedback,
                           Classify(inv.feedback, inv.phases).phases),
             <<>>, inv.issue_number, inv.branch_name).state
    ELSE IF inv.op = "execute"
    THEN SM_start_modification(inv.loaded)
    ELSE SM_complete_modification(
             IF TruthyInt(inv.pr_number)
             THEN [inv.loaded EXCEPT !.github_tracking =
                       Some([@[1] EXCEPT !.pr_number = inv.pr_number])]
             ELSE inv.loaded)

\* C23: when invocations on one project interleave their load and save steps,
\* nothing serialises them.  Once all have finished, the persisted ledger is the
\* one of whichever invocation saved last, and that ledger is made of what this
\* invocation loaded when it started and of its own change only: whatever the
\* others saved after that load is not in it.
C23_LastWriterWins ==
    ((\A p \in RaceProcs : procs.inv[p].pc = "done") /\ procs.order # <<>>)
        => state = RaceAlone(procs.inv[procs.order[Len(procs.order)]])

\* both invocations loaded the same ledger, with a started cycle, and both have
\* finished and returned success; the request saved its cycle, the complete_fix
\* saved last, and the requested cycle is not in the ledger
C23_Witness ==
    /\ \A p \in RaceProcs : procs.inv[p].pc = "done" /\ procs.inv[p].ok
    /\ \E p, q \in RaceProcs :
        /\ procs.inv[p].op = "request"
        /\ procs.inv[q].op = "complete_fix"
        /\ procs.inv[q].loaded = procs.inv[p].loaded
        /\ \E k \in 1..Len(procs.order) : procs.order[k] = p
        /\ procs.order[Len(procs.order)] = q
        /\ \E i \in 1..Len(procs.inv[p].mine.modifications) :
                procs.inv[p].mine.modifications[i].feedback = procs.inv[p].feedback
        /\ \A i \in 1..Len(state.modifications) :
                state.modifications[i].feedback # procs.inv[p].feedback

\* C24: a request given an explicit phase list does not consult the classifier:
\* when it returns, the cycle is recorded with exactly the given phases in the
\* given order, the category is custom, and the issue is created (or its creation
\* attempted) with the app label only.
C24_ExplicitPhasesBypassClassifier ==
    (last.op = "request" /\ ~IsNone(last.phases))
        => /\ last.msg # "raised"
                => /\ last.ok
                   /\ ~IsNone(Pending(state))
                   /\ Pending(state)[1].phases_to_rerun = last.phases[1]
                   /\ Pending(state)[1].feedback = last.feedback
           /\ Classify(last.feedback, last.phases).type = "custom"
           /\ \A i \in At(trace, "issue_create") :
                trace[i].labels =
                    <<T_app_colon \o (IF TruthyStr(last.app_name)
                                      THEN last.app_name[1] ELSE SelfAppName)>>

\* a request with phases other than the classifier's for its feedback, whose
\* issue was created
C24_Witness ==
    /\ last.op = "request"
    /\ ~IsNone(last.phases)
    /\ last.issue_out = "created"
    /\ At(trace, "issue_create") # {}
    /\ analyze_feedback(last.feedback).phases # last.phases[1]
    /\ analyze_feedback(last.feedback).labels # <<>>
    /\ Pending(state)[1].phases_to_rerun = last.phases[1]

\* the label app:{appName} of the last request
RequestLabel(l) ==
    T_app_colon \o (IF TruthyStr(l.app_name) THEN l.app_name[1] ELSE SelfAppName)

\* C25: ensure_labels_exist is idempotent: when the listing answers, a label
\* creation is requested exactly when the label app:{appName} does not exist in
\* the external system, so a call after a successful one creates nothing.
C25_LabelCreatedIffAbsent ==
    [][(last'.op = "request" /\ last'.list_out = "ok")
        => ((At(trace', "label_create") # {}) = (RequestLabel(last') \notin gh.labels))]_vars

====
